---- MODULE Spec2Model ----
(***************************************************************************)
(* Safe query synthesis, validation and execution pipeline of Agentic-DW:  *)
(* the SQL guardrail (agent/executor.py), the allow-list enforcer          *)
(* (agent/sql_llm_generator.py), the repair/retry orchestrator             *)
(* (api/routes.py), the Plan->SQL cache (metadata/store.py) and the        *)
(* snapshot store (mining/snapshots.py).                                   *)
(*                                                                         *)
(* SQL text is a sequence of one-character strings, so that stripping,     *)
(* whitespace normalisation, case folding and the regular expressions of   *)
(* the source are computed character by character.                         *)
(***************************************************************************)
EXTENDS Integers, Sequences, FiniteSets, TLC

VARIABLES
    \* ---- guardrail (validate_sql) ----
    vPc,        \* "input" | "done" | "off"
    vSql,       \* the string handed to validate_sql
    vResult,    \* what validate_sql gave back
    \* ---- allow-list enforcer (generate_sql_from_plan) ----
    aPc,        \* "input" | "done" | "off"
    aQuery,     \* the query the drafter wrote, as its parts
    aMeta,      \* the dataset metadata handed to generate_sql_from_plan
    aResult,    \* what generate_sql_from_plan gave back
    \* ---- Plan->SQL cache (metadata/store.py) ----
    backend,    \* "file" | "postgres": what _backend() answers
    cache,      \* plan_sql_cache.json / agent_plan_sql_cache: cache key -> entry
    cCalls,     \* number of cache calls made so far
    cPrev,      \* the cache call before the last one
    cLast,      \* the last cache call and what it returned
    \* ---- one analyze request (_run_analyze, LLM path) ----
    rPc,            \* "start" | "loop" | "done" | "off"
    max_repairs,    \* int(os.getenv("SQL_REPAIR_MAX_RETRIES", "2"))
    rDatasetId,     \* request.dataset_id, "" when absent
    rPlan,          \* what build_plan returned: intent, entity_scope, entity_dimension
    rSql,           \* the local sql
    cache_hit,      \* the local cache_hit
    repair_attempt, \* the local repair_attempt
    retries_used,   \* the local retries_used
    evaluation,     \* the local evaluation
    rows,           \* the local rows
    analysis_error, \* the local analysis_error
    response,       \* what the caller gets: a payload or an HTTPException
    traces,         \* the analyze trace log
    history,        \* what the request has called so far (not program state)
    \* ---- snapshot store (mining/snapshots.py) ----
    snapshots,      \* table mining_snapshots: key -> row
    now,            \* the clock, in hours
    ticks,          \* how many times the clock has advanced
    source_max,     \* MAX(date_id) of the source data, 0 when there is none
    uuids,          \* how many uuid4() values have been drawn
    sCalls,         \* number of snapshot calls made so far
    sLast,          \* the last snapshot call: its arguments, the store before it, its result
    refreshers,     \* concurrent refresh_snapshot calls: caller -> its position and locals
    commits,        \* the callers whose transaction committed, in commit order
    \* ---- error classification (agent/sql_llm_generator.py, classify_sql_error) ----
    kPc,            \* "ready" | "done" | "off"
    kMessage,       \* str(exc)
    kLabel,         \* the label returned, "none" before the call
    \* ---- date buckets (adapters/sql_renderer.py, SQLDialect.render_date_bucket) ----
    dPc,            \* "ready" | "done" | "off"
    dEngine,        \* self.engine
    dColumn,        \* column_expr
    dGrains,        \* the time_grain of each call, in call order
    dFragments,     \* what the calls made so far returned, in call order
    \* ---- feature builder (mining/feature_builder.py) ----
    fPc,            \* "ready" | "done" | "off"
    fMetadata,      \* schema_metadata
    fPlan,          \* plan
    fEngine,        \* db_engine
    fExecuted,      \* the statements handed to execute_safe_query, in call order
    fResult,        \* what feature_builder returned or raised
    \* ---- one execute_safe_query call (agent/executor.py, adapters/*.py) ----
    xPc,            \* "start" | "limits_ok" | "validated" | "adapter" | "session" |
                    \* "timeout_set" | "closing" | "done" | "off"
    xCall,          \* the arguments, and DB_ENGINE of the environment
    xSafeSql,       \* the local safe_sql, <<>> before validate_sql returned
    xAdapter,       \* the engine whose code runs the query, <<>> before it is chosen
    xConn,          \* the connection: "none" | "open" | "closed"
    xExecuted,      \* what was executed on the connection, in order
    xTrace,         \* the steps taken so far (not program state)
    xReturn,        \* what the call returned or raised
    \* ---- requests writing the plan cache file at once (metadata/store.py) ----
    PLAN_SQL_CACHE_FILE,    \* the file: its entries, or truncated while being rewritten
    wBefore,                \* the entries of the file before the first call
    writers                 \* per request: its set_cached_sql call, position and local dict

validateVars == <<vPc, vSql, vResult>>

allowVars == <<aPc, aQuery, aMeta, aResult>>

cacheVars == <<backend, cache, cCalls, cPrev, cLast>>

analyzeVars ==
    <<rPc, max_repairs, rDatasetId, rPlan, rSql, cache_hit, repair_attempt, retries_used,
      evaluation, rows, analysis_error, response, traces, history>>

snapshotVars == <<snapshots, now, ticks, source_max, uuids, sCalls, sLast, refreshers, commits>>

classifyVars == <<kPc, kMessage, kLabel>>

\* the parts that are pure functions of their input
renderVars == <<dPc, dEngine, dColumn, dGrains, dFragments>>

builderVars == <<fPc, fMetadata, fPlan, fEngine, fExecuted, fResult>>

executeVars == <<xPc, xCall, xSafeSql, xAdapter, xConn, xExecuted, xTrace, xReturn>>

\* the parts added to the pipeline's model last
fileVars == <<PLAN_SQL_CACHE_FILE, wBefore, writers>>

otherVars == <<executeVars, fileVars>>

functionVars == <<classifyVars, renderVars, builderVars, otherVars>>

vars == <<validateVars, allowVars, cacheVars, analyzeVars, snapshotVars, functionVars>>

(***************************************************************************)
(* The parts of the pipeline are exercised one at a time: each             *)
(* specification starts the variables of the other parts in the values     *)
(* below and leaves them unchanged.                                        *)
(***************************************************************************)
NoResult == [ok |-> FALSE, error |-> "not called", keyword |-> <<>>, value |-> <<>>]

ValidateOff == vPc = "off" /\ vSql = <<>> /\ vResult = NoResult

NoMetadata == [present |-> FALSE, tables |-> {}]

NoGenerated == [status |-> "not called", error |-> "", sql |-> <<>>]

NoQuery ==
    [columns |-> <<"*">>, first |-> [name |-> <<"t">>, style |-> "plain"],
     link |-> "none", second |-> [name |-> <<"t">>, style |-> "plain"]]

AllowOff == aPc = "off" /\ aQuery = NoQuery /\ aMeta = NoMetadata /\ aResult = NoGenerated

NoCall == [op |-> "none", dataset_id |-> "", plan_key |-> "", schema_hash |-> "",
           sql |-> <<>>, overwrote |-> FALSE, hit |-> FALSE, returned |-> <<>>]

EmptyCache == [k \in {} |-> <<>>]

CacheOff ==
    /\ backend = "file" /\ cache = EmptyCache /\ cCalls = 0
    /\ cPrev = NoCall /\ cLast = NoCall

NoException == [type |-> "none", kind |-> "none", message |-> "", execution |-> 0]

\* evaluation = {"status": "error", "reason": None}
NoEvaluation == [status |-> "error", reason |-> "None"]

NoResponse == [status_code |-> 0]

NoAnalyzePlan == [intent |-> "none", entity_scope |-> "none", entity_dimension |-> ""]

NoHistory ==
    [ executions |-> 0,          \* calls of execute_safe_query
      turns |-> 0,               \* turns of the while loop
      draftings |-> 0,           \* calls of generate_sql_from_plan in initial mode
      repairs |-> 0,             \* repair regenerations begun
      repairCalls |-> 0,         \* calls of generate_sql_from_plan in repair mode
      everyExecutionFailed |-> TRUE,   \* each execution raised an error of the database layer
      everyRepairSucceeded |-> TRUE,   \* each call of the drafter in repair mode returned SQL
      sqlFrom |-> "none",        \* "cache" | "drafter": where the local sql came from
      rejected |-> FALSE,        \* a guardrail or allow-list rejection was raised
      afterRejection |-> 0,      \* calls of the drafter or executor made after it
      cacheWrites |-> 0,
      lookedUp |-> <<>>,         \* the SQL that get_cached_sql returned on entry, <<>> for None
      firstStatement |-> <<>>,   \* the SQL handed to the first call of execute_safe_query
      everyExecutionEmpty |-> TRUE,    \* each execution returned no rows
      raisedAny |-> FALSE,       \* some call of the drafter or executor raised
      configFailed |-> FALSE,    \* an execution raised a configuration failure
      afterConfigFailure |-> 0,  \* calls of the drafter or executor made after it
      appendCalls |-> 0,         \* calls of append_query_trace
      cacheReads |-> 0,          \* calls of get_cached_sql
      snapshotCalls |-> 0,       \* calls of get_snapshot
      snapshotKey |-> <<>>,      \* the key of the row the last of them read or wrote
      appendFailed |-> FALSE ]   \* append_query_trace raised

AnalyzeOff ==
    /\ rPc = "off" /\ max_repairs = 0 /\ rDatasetId = "" /\ rPlan = NoAnalyzePlan
    /\ rSql = <<>>
    /\ cache_hit = FALSE /\ repair_attempt = 0 /\ retries_used = 0
    /\ evaluation = NoEvaluation /\ rows = <<>> /\ analysis_error = "None"
    /\ response = NoResponse /\ traces = <<>> /\ history = NoHistory

EmptyStore == [k \in {} |-> <<>>]

NoSnapshotCall ==
    [op |-> "none", shape |-> "none", refresh_if_stale |-> FALSE, at |-> 0, src |-> 0,
     before |-> EmptyStore, outcome |-> "none", returned |-> <<>>]

SnapshotOff ==
    /\ snapshots = EmptyStore /\ now = 0 /\ ticks = 0 /\ source_max = 0
    /\ uuids = 0 /\ sCalls = 0 /\ sLast = NoSnapshotCall
    /\ refreshers = <<>> /\ commits = <<>>

(***************************************************************************)
(* Characters and strings                                                  *)
(***************************************************************************)
UpperChars ==
    <<"A", "B", "C", "D", "E", "F", "G", "H", "I", "J", "K", "L", "M",
      "N", "O", "P", "Q", "R", "S", "T", "U", "V", "W", "X", "Y", "Z">>

LowerChars ==
    <<"a", "b", "c", "d", "e", "f", "g", "h", "i", "j", "k", "l", "m",
      "n", "o", "p", "q", "r", "s", "t", "u", "v", "w", "x", "y", "z">>

Digits == {"0", "1", "2", "3", "4", "5", "6", "7", "8", "9"}

\* Python's \s and str.strip(): the whitespace characters the inputs use.
Whitespace == {" ", "\n", "\t"}

Range(f) == {f[i] : i \in DOMAIN f}

\* Python's \w, behind the \b of the source's regular expressions.
IsWordChar(c) == c \in Range(UpperChars) \cup Range(LowerChars) \cup Digits \cup {"_"}

\* str.lower() on one character
LowerChar(c) ==
    IF \E i \in DOMAIN UpperChars : UpperChars[i] = c
    THEN LowerChars[CHOOSE i \in DOMAIN UpperChars : UpperChars[i] = c]
    ELSE c

ClassifyOff == kPc = "off" /\ kMessage = <<>> /\ kLabel = "none"

RenderOff ==
    /\ dPc = "off" /\ dEngine = <<>> /\ dColumn = <<>> /\ dGrains = <<>> /\ dFragments = <<>>

NoPlan ==
    [task_type |-> "none", entity_scope |-> "none", entity_dimension |-> <<>>, n |-> 0,
     metric |-> <<>>, time_grain |-> <<>>]

NoSchemaMetadata ==
    [entities |-> <<>>, measures |-> <<>>, time_columns |-> <<>>, relationships |-> <<>>]

BuilderOff ==
    /\ fPc = "off" /\ fMetadata = NoSchemaMetadata /\ fPlan = NoPlan /\ fEngine = <<>>
    /\ fExecuted = <<>> /\ fResult = [status |-> "none"]

NoExecuteCall ==
    [sql |-> <<>>, row_limit |-> 0, timeout_ms |-> 0, db_engine |-> <<>>,
     source_config |-> FALSE, DB_ENGINE |-> <<>>]

NotReturned == [kind |-> "none"]

ExecuteOff ==
    /\ xPc = "off" /\ xCall = NoExecuteCall /\ xSafeSql = <<>> /\ xAdapter = <<>>
    /\ xConn = "none" /\ xExecuted = <<>> /\ xTrace = <<>> /\ xReturn = NotReturned

\* the file as _ensure_dirs creates it: "{}"
NewCacheFile == [truncated |-> FALSE, entries |-> EmptyCache]

FileOff ==
    /\ PLAN_SQL_CACHE_FILE = NewCacheFile /\ wBefore = EmptyCache /\ writers = <<>>

OthersOff == ExecuteOff /\ FileOff

FunctionsOff == ClassifyOff /\ RenderOff /\ BuilderOff /\ OthersOff

UpperChar(c) ==
    IF \E i \in DOMAIN LowerChars : LowerChars[i] = c
    THEN UpperChars[CHOOSE i \in DOMAIN LowerChars : LowerChars[i] = c]
    ELSE c

\* str.lower()
Lower(s) == [i \in DOMAIN s |-> LowerChar(s[i])]

RECURSIVE LStrip(_)
\* str.lstrip()
LStrip(s) ==
    IF s # <<>> /\ Head(s) \in Whitespace THEN LStrip(Tail(s)) ELSE s

RECURSIVE RStrip(_)
\* str.rstrip()
RStrip(s) ==
    IF s # <<>> /\ s[Len(s)] \in Whitespace THEN RStrip(SubSeq(s, 1, Len(s) - 1)) ELSE s

\* str.strip()
Strip(s) == RStrip(LStrip(s))

\* a validate_sql that forgets to strip the trailing semicolon
RStripSemicolons_kept(s) == s

RECURSIVE RStripSemicolons(_)
\* str.rstrip(";")
RStripSemicolons(s) ==
    IF s # <<>> /\ s[Len(s)] = ";"
    THEN RStripSemicolons(SubSeq(s, 1, Len(s) - 1))
    ELSE s

\* str.count(c) for a one-character c
CountChar(s, c) == Cardinality({i \in DOMAIN s : s[i] = c})

\* str.endswith(c) for a one-character c
EndsWithChar(s, c) == s # <<>> /\ s[Len(s)] = c

\* str.startswith(p)
StartsWith(s, p) == Len(s) >= Len(p) /\ SubSeq(s, 1, Len(p)) = p

RECURSIVE CollapseWhitespace(_)
\* re.sub(r"\s+", " ", s): every run of whitespace becomes one space
CollapseWhitespace(s) ==
    IF s = <<>> THEN <<>>
    ELSE IF Head(s) \in Whitespace
         THEN <<" ">> \o CollapseWhitespace(LStrip(s))
         ELSE <<Head(s)>> \o CollapseWhitespace(Tail(s))

\* re.search(rf"\b{word}\b", s) for a word made of word characters
WordSearch(word, s) ==
    \E i \in 1..(Len(s) - Len(word) + 1) :
        /\ SubSeq(s, i, i + Len(word) - 1) = word
        /\ (i = 1 \/ ~IsWordChar(s[i - 1]))
        /\ (i + Len(word) > Len(s) \/ ~IsWordChar(s[i + Len(word)]))

(***************************************************************************)
(* SQL guardrail: agent/executor.py                                        *)
(***************************************************************************)
_DENYLIST ==
    << <<"i", "n", "s", "e", "r", "t">>,
       <<"u", "p", "d", "a", "t", "e">>,
       <<"d", "e", "l", "e", "t", "e">>,
       <<"d", "r", "o", "p">>,
       <<"a", "l", "t", "e", "r">>,
       <<"c", "r", "e", "a", "t", "e">>,
       <<"t", "r", "u", "n", "c", "a", "t", "e">>,
       <<"g", "r", "a", "n", "t">>,
       <<"r", "e", "v", "o", "k", "e">>,
       <<"c", "o", "p", "y">>,
       <<"c", "a", "l", "l">>,
       <<"d", "o">>,
       <<"v", "a", "c", "u", "u", "m">>,
       <<"c", "o", "m", "m", "e", "n", "t">> >>

\* a normalisation that forgets the case folding
_normalize_sql_keeps_case(sql) == CollapseWhitespace(Strip(sql))

_normalize_sql(sql) == Lower(CollapseWhitespace(Strip(sql)))

SelectPrefix == <<"s", "e", "l", "e", "c", "t", " ">>

WithPrefix == <<"w", "i", "t", "h", " ">>

\* The loop over _DENYLIST: the first keyword, in list order, found as a whole word.
BlockedKeywords(normalized) ==
    {k \in DOMAIN _DENYLIST : WordSearch(_DENYLIST[k], normalized)}

FirstBlocked(normalized) ==
    CHOOSE k \in BlockedKeywords(normalized) :
        \A j \in BlockedKeywords(normalized) : k <= j

Unsafe(msg, kw) == [ok |-> FALSE, error |-> msg, keyword |-> kw, value |-> <<>>]

Safe(value) == [ok |-> TRUE, error |-> "", keyword |-> <<>>, value |-> value]

validate_sql(sql) ==
    LET candidate == Strip(sql)
        semicolons == CountChar(candidate, ";")
        normalized == _normalize_sql(RStripSemicolons(candidate))
    IN  IF candidate = <<>>
        THEN Unsafe("SQL is empty", <<>>)
        ELSE IF semicolons > 1
        THEN Unsafe("Multiple SQL statements are not allowed", <<>>)
        ELSE IF semicolons = 1 /\ ~EndsWithChar(candidate, ";")
        THEN Unsafe("Semicolon is only allowed at the end of SQL", <<>>)
        ELSE IF ~(StartsWith(normalized, SelectPrefix) \/ StartsWith(normalized, WithPrefix))
        THEN Unsafe("Only SELECT/CTE queries are allowed", <<>>)
        ELSE IF BlockedKeywords(normalized) # {}
        THEN Unsafe("Blocked SQL keyword detected", _DENYLIST[FirstBlocked(normalized)])
        ELSE Safe(RStripSemicolons(candidate))

(***************************************************************************)
(* Allow-list enforcer: agent/sql_llm_generator.py                         *)
(***************************************************************************)
\* [A-Za-z_]
IsIdentStart(c) == c \in Range(UpperChars) \cup Range(LowerChars) \cup {"_"}

\* [A-Za-z0-9_]
IsIdentChar(c) == IsIdentStart(c) \/ c \in Digits

RECURSIVE SkipWhitespace(_, _)
\* \s* from position i: the first position that holds no whitespace
SkipWhitespace(s, i) ==
    IF i <= Len(s) /\ s[i] \in Whitespace THEN SkipWhitespace(s, i + 1) ELSE i

RECURSIVE SkipIdent(_, _)
\* [A-Za-z0-9_]* from position i
SkipIdent(s, i) ==
    IF i <= Len(s) /\ IsIdentChar(s[i]) THEN SkipIdent(s, i + 1) ELSE i

RECURSIVE SkipDottedIdent(_, _)
\* [A-Za-z0-9_\.]* from position i
SkipDottedIdent(s, i) ==
    IF i <= Len(s) /\ (IsIdentChar(s[i]) \/ s[i] = ".")
    THEN SkipDottedIdent(s, i + 1)
    ELSE i

\* s holds word (given in lower case) at position i, in any letter case
HasWordAt(s, i, word) ==
    /\ i + Len(word) - 1 <= Len(s)
    /\ \A j \in 1..Len(word) : LowerChar(s[i + j - 1]) = word[j]

FromWord == <<"f", "r", "o", "m">>

JoinWord == <<"j", "o", "i", "n">>

AsWord == <<"a", "s">>

\* \b(?:from|join)\s+([A-Za-z_][A-Za-z0-9_\.]*) tried at position i:
\* found, the captured token's first position and the position after it
TableMatchAt(s, i) ==
    LET tokenStart == SkipWhitespace(s, i + 4)
        found ==
            /\ (i = 1 \/ ~IsWordChar(s[i - 1]))
            /\ (HasWordAt(s, i, FromWord) \/ HasWordAt(s, i, JoinWord))
            /\ tokenStart > i + 4
            /\ tokenStart <= Len(s)
            /\ IsIdentStart(s[tokenStart])
    IN  [found |-> found,
         from |-> tokenStart,
         to |-> IF found THEN SkipDottedIdent(s, tokenStart + 1) ELSE i]

RECURSIVE LastSegmentFrom(_, _)
\* token.split(".")[-1]: what follows the last dot
LastSegmentFrom(token, i) ==
    IF i = 0 \/ token[i] = "." THEN SubSeq(token, i + 1, Len(token))
    ELSE LastSegmentFrom(token, i - 1)

LastSegment(token) == LastSegmentFrom(token, Len(token))

RECURSIVE ExtractTablesFrom(_, _)
\* pattern.findall(sql): the matches from left to right, none overlapping
ExtractTablesFrom(s, i) ==
    IF i > Len(s) THEN {}
    ELSE LET m == TableMatchAt(s, i)
         IN  IF m.found
             THEN {LastSegment(SubSeq(s, m.from, m.to - 1))} \cup ExtractTablesFrom(s, m.to)
             ELSE ExtractTablesFrom(s, i + 1)

_extract_tables_from_sql(sql) == ExtractTablesFrom(sql, 1)

\* metadata: [present, tables], tables a set of [table_name, columns]
_allowed_table_set(metadata) ==
    IF ~metadata.present THEN {}
    ELSE {Strip(t.table_name) : t \in {u \in metadata.tables : u.table_name # <<>>}}

_allowed_columns_map(metadata) ==
    IF ~metadata.present THEN {}
    ELSE {[table |-> Strip(t.table_name), columns |-> {c \in t.columns : c # <<>>}] :
            t \in {u \in metadata.tables : Strip(u.table_name) # <<>>}}

\* TRUE when the check passes, FALSE when it raises RuntimeError
_assert_allowlisted_tables(sql, metadata) ==
    LET allowed == _allowed_table_set(metadata)
    IN  allowed = {} \/ {t \in _extract_tables_from_sql(sql) : t \notin allowed} = {}

\* (?:as\s+)? from position afterWs: where the alias would begin
AliasStart(s, afterWs) ==
    IF HasWordAt(s, afterWs, AsWord) /\ SkipWhitespace(s, afterWs + 2) > afterWs + 2
    THEN SkipWhitespace(s, afterWs + 2)
    ELSE afterWs

\* ([A-Za-z_][A-Za-z0-9_]*)? from position aliasStart: the position after it
AliasEnd(s, aliasStart) ==
    IF aliasStart <= Len(s) /\ IsIdentStart(s[aliasStart])
    THEN SkipIdent(s, aliasStart + 1)
    ELSE aliasStart

\* the groups of one match: t is the table part, the alias lies in aliasStart..aliasEnd-1
AliasGroups(s, i, t, aliasStart, aliasEnd) ==
    [found |-> t.found,
     table |-> IF t.found THEN LastSegment(SubSeq(s, t.from, t.to - 1)) ELSE <<>>,
     alias |-> IF t.found THEN SubSeq(s, aliasStart, aliasEnd - 1) ELSE <<>>,
     to |-> IF t.found THEN aliasEnd ELSE i]

AliasFrom(s, i, t, aliasStart) == AliasGroups(s, i, t, aliasStart, AliasEnd(s, aliasStart))

AliasAfterTable(s, i, t) == AliasFrom(s, i, t, AliasStart(s, SkipWhitespace(s, t.to)))

\* \b(?:from|join)\s+(table)\s*(?:as\s+)?(alias)? tried at position i
AliasMatchAt(s, i) == AliasAfterTable(s, i, TableMatchAt(s, i))

\* aliases[name] = table, unless name is empty
BindAlias(aliases, name, table) ==
    IF name = <<>> \/ table = <<>> THEN aliases
    ELSE {a \in aliases : a.name # name} \cup {[name |-> name, table |-> table]}

RECURSIVE ExtractAliasesFrom(_, _, _)
\* one turn of the loop of _extract_table_aliases, m the match tried at i
ExtractAliasesStep(s, i, aliases, m) ==
    IF m.found
    THEN ExtractAliasesFrom(s, m.to,
             BindAlias(BindAlias(aliases, m.table, m.table), m.alias, m.table))
    ELSE ExtractAliasesFrom(s, i + 1, aliases)

\* the loop of _extract_table_aliases: later matches overwrite earlier ones
ExtractAliasesFrom(s, i, aliases) ==
    IF i > Len(s) THEN aliases ELSE ExtractAliasesStep(s, i, aliases, AliasMatchAt(s, i))

_extract_table_aliases(sql) == ExtractAliasesFrom(sql, 1, {})

\* \b([A-Za-z_][A-Za-z0-9_]*)\s*\.\s*([A-Za-z_][A-Za-z0-9_]*)\b tried at position i
DottedMatchAt(s, i) ==
    LET leftEnd == SkipIdent(s, i)
        dot == SkipWhitespace(s, leftEnd)
        rightStart == SkipWhitespace(s, dot + 1)
        found ==
            /\ i <= Len(s)
            /\ IsIdentStart(s[i])
            /\ (i = 1 \/ ~IsWordChar(s[i - 1]))
            /\ dot <= Len(s)
            /\ s[dot] = "."
            /\ rightStart <= Len(s)
            /\ IsIdentStart(s[rightStart])
    IN  [found |-> found,
         left |-> IF found THEN SubSeq(s, i, leftEnd - 1) ELSE <<>>,
         right |-> IF found THEN SubSeq(s, rightStart, SkipIdent(s, rightStart) - 1) ELSE <<>>,
         to |-> IF found THEN SkipIdent(s, rightStart) ELSE i]

RECURSIVE ExtractDottedFrom(_, _)
ExtractDottedFrom(s, i) ==
    IF i > Len(s) THEN {}
    ELSE LET m == DottedMatchAt(s, i)
         IN  IF m.found
             THEN {<<m.left, m.right>>} \cup ExtractDottedFrom(s, m.to)
             ELSE ExtractDottedFrom(s, i + 1)

_extract_dotted_columns(sql) == ExtractDottedFrom(sql, 1)

\* aliases.get(left, left)
AliasedTable(aliases, left) ==
    IF \E a \in aliases : a.name = left
    THEN (CHOOSE a \in aliases : a.name = left).table
    ELSE left

\* the references left.col whose table is unknown or does not hold col
DisallowedColumns(refs, aliases, allowed_cols) ==
    {ref \in refs :
        ~\E e \in allowed_cols :
            e.table = AliasedTable(aliases, ref[1]) /\ ref[2] \in e.columns}

\* TRUE when the check passes, FALSE when it raises RuntimeError
_assert_allowlisted_columns(sql, metadata) ==
    \/ _allowed_columns_map(metadata) = {}
    \/ DisallowedColumns(_extract_dotted_columns(sql), _extract_table_aliases(sql),
                         _allowed_columns_map(metadata)) = {}

\* generate_sql_from_plan once the drafter has answered with the text drafted
generate_sql_from_plan(drafted, metadata) ==
    LET sql == Strip(drafted)
        validated == validate_sql(sql)
    IN  IF sql = <<>>
        THEN [status |-> "runtime_error", error |-> "SQL generator response missing sql", sql |-> <<>>]
        ELSE IF ~validated.ok
        THEN [status |-> "unsafe_sql", error |-> validated.error, sql |-> <<>>]
        ELSE IF ~_assert_allowlisted_tables(validated.value, metadata)
        THEN [status |-> "runtime_error", error |-> "Generated SQL uses non-allowlisted table(s)", sql |-> <<>>]
        ELSE IF ~_assert_allowlisted_columns(validated.value, metadata)
        THEN [status |-> "runtime_error", error |-> "Generated SQL uses non-allowlisted column reference(s)", sql |-> <<>>]
        ELSE [status |-> "ok", error |-> "", sql |-> validated.value]

(***************************************************************************)
(* Inputs of the guardrail: a head followed by up to MaxAtoms pieces, one  *)
(* of them a denylisted keyword in lower or mixed case.                    *)
(***************************************************************************)
MaxAtoms == 3

Heads ==
    { <<>>,
      <<"s", "e", "l", "e", "c", "t", " ">>,
      <<"S", "E", "L", "E", "C", "T", "\n">>,
      <<"w", "i", "t", "h", " ">>,
      <<"s", "e", "l", "e", "c", "t">>,
      <<" ", "s", "e", "l", "e", "c", "t", " ">> }

BodyAtoms == {"KW", "KWM", "x", "_", " ", ";", "("}

\* the keyword with its odd positions in upper case
MixedCase(word) == [i \in DOMAIN word |-> IF i % 2 = 1 THEN UpperChar(word[i]) ELSE word[i]]

AtomChars(a, k) ==
    CASE a = "KW" -> _DENYLIST[k]
      [] a = "KWM" -> MixedCase(_DENYLIST[k])
      [] OTHER -> <<a>>

RECURSIVE Flatten(_, _)
Flatten(atoms, k) ==
    IF atoms = <<>> THEN <<>> ELSE AtomChars(Head(atoms), k) \o Flatten(Tail(atoms), k)

BodySeqs == UNION {[1..n -> BodyAtoms] : n \in 0..MaxAtoms}

\* the query of test_validate_sql_rejects_blocked_keyword_in_cte, its table named t
CteThenDrop ==
    <<"W", "I", "T", "H", " ", "x", " ", "A", "S", " ", "(", "S", "E", "L", 
      "E", "C", "T", " ", "1", ")", " ", "S", "E", "L", "E", "C", "T", " ", 
      "*", " ", "F", "R", "O", "M", " ", "x", ";", " ", "D", "R", "O", "P", 
      " ", "T", "A", "B", "L", "E", " ", "t", ";">>

ValidateInputs ==
    {h \o Flatten(b, k) : h \in Heads, b \in BodySeqs, k \in DOMAIN _DENYLIST}
        \cup {CteThenDrop}



InitValidate ==
    /\ vPc = "input"
    /\ vSql \in ValidateInputs
    /\ vResult = NoResult
    /\ AllowOff /\ CacheOff /\ AnalyzeOff /\ SnapshotOff /\ FunctionsOff

\* one call validate_sql(vSql)
Validate ==
    /\ vPc = "input"
    /\ vResult' = validate_sql(vSql)
    /\ vPc' = "done"
    /\ UNCHANGED <<vSql, allowVars, cacheVars, analyzeVars, snapshotVars, functionVars>>

NextValidate == Validate

SpecValidate == InitValidate /\ [][NextValidate]_vars

(***************************************************************************)
(* Claims about the guardrail                                              *)
(***************************************************************************)
\* the keyword occurs in s as a whole word, in any letter case
ContainsKeywordAnyCase(s, word) ==
    \E i \in 1..(Len(s) - Len(word) + 1) :
        /\ \A j \in 1..Len(word) : LowerChar(s[i + j - 1]) = word[j]
        /\ (i = 1 \/ ~IsWordChar(s[i - 1]))
        /\ (i + Len(word) > Len(s) \/ ~IsWordChar(s[i + Len(word)]))

ContainsDenylisted(s) == \E k \in DOMAIN _DENYLIST : ContainsKeywordAnyCase(s, _DENYLIST[k])

\* C3: a string with more than one semicolon, or with a denylisted keyword as a
\* whole word in any letter case, is rejected by validate_sql, never returned.
C3_UnsafeRejected ==
    vPc = "done" =>
        ((CountChar(vSql, ";") > 1 \/ ContainsDenylisted(vSql)) => ~vResult.ok)

\* a mixed-case keyword inside an otherwise acceptable SELECT was rejected
C3_Witness ==
    /\ vPc = "done"
    /\ ContainsDenylisted(vSql)
    /\ vSql # Lower(vSql)
    /\ CountChar(vSql, ";") <= 1
    /\ vResult.error = "Blocked SQL keyword detected"

\* the input with one trailing semicolon removed and nothing else changed
WithoutTrailingSemicolon(s) ==
    IF EndsWithChar(s, ";") THEN SubSeq(s, 1, Len(s) - 1) ELSE s

BeginsWith(s, word) == StartsWith(Lower(CollapseWhitespace(Strip(s))), word)

\* C4 as stated: every string that begins, after whitespace normalisation and
\* case folding, with select or with, has at most one semicolon and no
\* denylisted keyword is accepted, and comes back with only a trailing
\* semicolon removed.
C4_AsStated ==
    vPc = "done" =>
        (( /\ (BeginsWith(vSql, <<"s", "e", "l", "e", "c", "t">>)
                \/ BeginsWith(vSql, <<"w", "i", "t", "h">>))
           /\ CountChar(vSql, ";") <= 1
           /\ ~ContainsDenylisted(vSql) )
         => (vResult.ok /\ vResult.value = WithoutTrailingSemicolon(vSql)))

\* C4 as amended: the statement is the input without surrounding whitespace
\* and without a semicolon that ends it; it must begin with select or with
\* followed by whitespace, hold no other semicolon and no denylisted keyword;
\* what comes back is that statement.
C4_Statement(s) == WithoutTrailingSemicolon(Strip(s))

C4_Accepted ==
    vPc = "done" =>
        (( /\ (BeginsWith(C4_Statement(vSql), <<"s", "e", "l", "e", "c", "t", " ">>)
                \/ BeginsWith(C4_Statement(vSql), <<"w", "i", "t", "h", " ">>))
           /\ CountChar(C4_Statement(vSql), ";") = 0
           /\ ~ContainsDenylisted(vSql) )
         => (vResult.ok /\ vResult.value = C4_Statement(vSql)))

\* " select x;" was accepted: the leading blank and the semicolon are gone
C4_Witness ==
    /\ vPc = "done"
    /\ vResult.ok
    /\ EndsWithChar(vSql, ";")
    /\ vSql # Strip(vSql)
    /\ vResult.value = C4_Statement(vSql)

\* C21: when validate_sql rejects SQL that holds a denylisted keyword as a whole
\* word, the error is "Blocked SQL keyword detected" and names a keyword the SQL
\* holds; the CTE query followed by DROP TABLE is rejected naming drop.
C21_KeywordNamed ==
    (vPc = "done" /\ ~vResult.ok /\ ContainsDenylisted(vSql)) =>
        /\ vResult.error = "Blocked SQL keyword detected"
        /\ ContainsKeywordAnyCase(vSql, vResult.keyword)
        /\ (vSql = CteThenDrop => vResult.keyword = <<"d", "r", "o", "p">>)

(***************************************************************************)
(* Inputs of the allow-list enforcer: SELECT <columns> FROM <table>        *)
(* [JOIN <table> | , <table>], each table written plain, quoted,           *)
(* schema-qualified or with an alias.                                      *)
(***************************************************************************)
Records == <<"r", "e", "c", "o", "r", "d", "s">>

DimCustomer == <<"d", "i", "m", "_", "c", "u", "s", "t", "o", "m", "e", "r">>

InternalAudit == <<"i", "n", "t", "e", "r", "n", "a", "l", "_", "a", "u", "d", "i", "t">>

Amount == <<"a", "m", "o", "u", "n", "t">>

Country == <<"c", "o", "u", "n", "t", "r", "y">>

Secret == <<"s", "e", "c", "r", "e", "t">>

TableNames == {Records, DimCustomer, InternalAudit}

TableStyles == {"plain", "quoted", "schema", "alias"}

ColumnLists ==
    { <<"*">>,
      <<"r", ".">> \o Amount,
      Records \o <<".">> \o Amount,
      <<"r", ".">> \o Secret }

Links == {"none", "join", "JOIN", "comma"}

RenderTable(ref) ==
    CASE ref.style = "plain" -> ref.name
      [] ref.style = "quoted" -> <<"\"">> \o ref.name \o <<"\"">>
      [] ref.style = "schema" -> <<"p", "u", "b", "l", "i", "c", ".">> \o ref.name
      [] ref.style = "alias" -> ref.name \o <<" ", "r">>

RenderLink(link) ==
    CASE link = "join" -> <<" ", "j", "o", "i", "n", " ">>
      [] link = "JOIN" -> <<"\n", "J", "O", "I", "N", "\n">>
      [] link = "comma" -> <<",", " ">>
      [] OTHER -> <<>>

\* the text the drafter returns for a query
RenderQuery(q) ==
    <<"S", "E", "L", "E", "C", "T", " ">> \o q.columns
        \o <<" ", "F", "R", "O", "M", " ">> \o RenderTable(q.first)
        \o (IF q.link = "none" THEN <<>> ELSE RenderLink(q.link) \o RenderTable(q.second))

TableRefs == [name : TableNames, style : TableStyles]

DraftedQueries ==
    [columns : ColumnLists, first : TableRefs, link : Links, second : TableRefs]

\* the tables a drafted query reads after FROM, JOIN or a comma
TablesRead(q) == {q.first.name} \cup (IF q.link = "none" THEN {} ELSE {q.second.name})

DatasetMetadata ==
    [present |-> TRUE,
     tables |-> { [table_name |-> Records, columns |-> {Country, Amount}],
                  [table_name |-> DimCustomer, columns |-> {Country}] }]

Metadatas == {NoMetadata, [present |-> TRUE, tables |-> {}], DatasetMetadata}

KnownTables(metadata) == {t.table_name : t \in metadata.tables}

InitAllow ==
    /\ aPc = "input"
    /\ aQuery \in {q \in DraftedQueries : q.link = "none" => q.second = q.first}
    /\ aMeta \in Metadatas
    /\ aResult = NoGenerated
    /\ ValidateOff /\ CacheOff /\ AnalyzeOff /\ SnapshotOff /\ FunctionsOff

\* one call generate_sql_from_plan whose drafter answers RenderQuery(aQuery)
Generate ==
    /\ aPc = "input"
    /\ aResult' = generate_sql_from_plan(RenderQuery(aQuery), aMeta)
    /\ aPc' = "done"
    /\ UNCHANGED <<aQuery, aMeta, validateVars, cacheVars, analyzeVars, snapshotVars, functionVars>>

NextAllow == Generate

SpecAllow == InitAllow /\ [][NextAllow]_vars

\* C5 where the metadata names at least one table: SQL that
\* generate_sql_from_plan returns reads no table outside the known set
\* (a drafted query reading a table outside it is rejected).
C5_OnlyKnownTables ==
    (aPc = "done" /\ KnownTables(aMeta) # {} /\ aResult.status = "ok")
        => TablesRead(aQuery) \subseteq KnownTables(aMeta)

(***************************************************************************)
(* Plan->SQL cache: metadata/store.py.  An absent (None) or empty          *)
(* dataset_id / schema_hash is the empty string: the code tests both with  *)
(* `or`.  updated_at is left out: nothing reads it.                        *)
(***************************************************************************)
_compose_plan_cache_key(dataset_id, plan_key, schema_hash) ==
    (IF dataset_id = "" THEN "global" ELSE dataset_id) \o "::"
        \o (IF schema_hash = "" THEN "no_schema_hash" ELSE schema_hash) \o "::" \o plan_key

\* f"{dataset_id or 'global'}::{plan_key}"
LegacyKey(dataset_id, plan_key) ==
    (IF dataset_id = "" THEN "global" ELSE dataset_id) \o "::" \o plan_key

\* a lookup that prefers the legacy key to the composed one
LookupCachedSql_legacy_first(store, dataset_id, plan_key, schema_hash) ==
    LET key == _compose_plan_cache_key(dataset_id, plan_key, schema_hash)
        legacy_key == LegacyKey(dataset_id, plan_key)
    IN  IF legacy_key \in DOMAIN store THEN [hit |-> TRUE, sql |-> store[legacy_key].sql]
        ELSE IF key \in DOMAIN store THEN [hit |-> TRUE, sql |-> store[key].sql]
        ELSE [hit |-> FALSE, sql |-> <<>>]

\* the lookup both backends make: the composed key first, the legacy key next
LookupCachedSql(store, dataset_id, plan_key, schema_hash) ==
    LET key == _compose_plan_cache_key(dataset_id, plan_key, schema_hash)
        legacy_key == LegacyKey(dataset_id, plan_key)
    IN  IF key \in DOMAIN store THEN [hit |-> TRUE, sql |-> store[key].sql]
        ELSE IF legacy_key \in DOMAIN store THEN [hit |-> TRUE, sql |-> store[legacy_key].sql]
        ELSE [hit |-> FALSE, sql |-> <<>>]

_file_get_cached_sql(store, dataset_id, plan_key, schema_hash) ==
    LookupCachedSql(store, dataset_id, plan_key, schema_hash)

_pg_get_cached_sql(store, dataset_id, plan_key, schema_hash) ==
    LookupCachedSql(store, dataset_id, plan_key, schema_hash)

\* store with key bound to entry, every other key as it was
Upsert(store, key, entry) ==
    [k \in DOMAIN store \cup {key} |-> IF k = key THEN entry ELSE store[k]]

\* cache[key] = {"sql": sql, "updated_at": ..., "schema_hash": schema_hash}
_file_set_cached_sql(store, dataset_id, plan_key, sql, schema_hash) ==
    Upsert(store, _compose_plan_cache_key(dataset_id, plan_key, schema_hash),
           [sql |-> sql, schema_hash |-> schema_hash])

\* INSERT ... ON CONFLICT (cache_key) DO UPDATE SET ...
_pg_set_cached_sql(store, dataset_id, plan_key, sql, schema_hash) ==
    Upsert(store, _compose_plan_cache_key(dataset_id, plan_key, schema_hash),
           [sql |-> sql, schema_hash |-> schema_hash,
            dataset_id |-> dataset_id, plan_key |-> plan_key])

get_cached_sql(store, dataset_id, plan_key, schema_hash) ==
    IF backend = "postgres"
    THEN _pg_get_cached_sql(store, dataset_id, plan_key, schema_hash)
    ELSE _file_get_cached_sql(store, dataset_id, plan_key, schema_hash)

set_cached_sql(store, dataset_id, plan_key, sql, schema_hash) ==
    IF backend = "postgres"
    THEN _pg_set_cached_sql(store, dataset_id, plan_key, sql, schema_hash)
    ELSE _file_set_cached_sql(store, dataset_id, plan_key, sql, schema_hash)

MaxCacheCalls == 3

DatasetIds == {"", "ds1"}

PlanKeys == {"p1"}

SchemaHashes == {"", "h1", "h2"}

SqlA == <<"s", "e", "l", "e", "c", "t", " ", "1">>

SqlB == <<"s", "e", "l", "e", "c", "t", " ", "2">>

CachedSqlValues == {<<>>, SqlA, SqlB}

\* caches left by earlier runs: empty, or entries under the legacy keys
InitialCaches ==
    {EmptyCache} \cup
    {[k \in {LegacyKey(d, pk) : d \in ds} |-> [sql |-> SqlA, schema_hash |-> ""]] :
        ds \in (SUBSET DatasetIds) \ {{}}, pk \in PlanKeys}

InitCache ==
    /\ backend \in {"file", "postgres"}
    /\ cache \in InitialCaches
    /\ cCalls = 0
    /\ cPrev = NoCall
    /\ cLast = NoCall
    /\ ValidateOff /\ AllowOff /\ AnalyzeOff /\ SnapshotOff /\ FunctionsOff

SetCachedSql(d, pk, sql, h) ==
    /\ cCalls < MaxCacheCalls
    /\ cache' = set_cached_sql(cache, d, pk, sql, h)
    /\ cCalls' = cCalls + 1
    /\ cPrev' = cLast
    /\ cLast' = [op |-> "set", dataset_id |-> d, plan_key |-> pk, schema_hash |-> h,
                 sql |-> sql,
                 overwrote |-> _compose_plan_cache_key(d, pk, h) \in DOMAIN cache,
                 hit |-> FALSE, returned |-> <<>>]
    /\ UNCHANGED <<backend, validateVars, allowVars, analyzeVars, snapshotVars, functionVars>>

GetCachedSql(d, pk, h) ==
    /\ cCalls < MaxCacheCalls
    /\ cCalls' = cCalls + 1
    /\ cPrev' = cLast
    /\ cLast' = [op |-> "get", dataset_id |-> d, plan_key |-> pk, schema_hash |-> h,
                 sql |-> <<>>, overwrote |-> FALSE,
                 hit |-> get_cached_sql(cache, d, pk, h).hit,
                 returned |-> get_cached_sql(cache, d, pk, h).sql]
    /\ UNCHANGED <<backend, cache, validateVars, allowVars, analyzeVars, snapshotVars, functionVars>>

NextCache ==
    \E d \in DatasetIds, pk \in PlanKeys, h \in SchemaHashes :
        \/ \E sql \in CachedSqlValues : SetCachedSql(d, pk, sql, h)
        \/ GetCachedSql(d, pk, h)

SpecCache == InitCache /\ [][NextCache]_vars

SameKey(a, b) ==
    a.dataset_id = b.dataset_id /\ a.plan_key = b.plan_key /\ a.schema_hash = b.schema_hash

\* C9: on either backend, get_cached_sql(d, p, h) right after
\* set_cached_sql(d, p, sql, h) returns exactly sql, also when the set
\* overwrote an entry and when d or h is absent.
C9_GetAfterSet ==
    (cLast.op = "get" /\ cPrev.op = "set" /\ SameKey(cLast, cPrev))
        => (cLast.hit /\ cLast.returned = cPrev.sql)

\* a set that overwrote an entry under an absent dataset and hash, then a get
C9_Witness ==
    /\ cLast.op = "get" /\ cPrev.op = "set" /\ SameKey(cLast, cPrev)
    /\ cLast.dataset_id = "" /\ cLast.schema_hash = ""
    /\ cPrev.overwrote
    /\ cLast.returned = SqlB
    /\ backend = "postgres"

\* C23: SQL cached under one schema hash is never returned for the same dataset
\* and plan under another schema hash: a lookup that follows a set under a
\* different hash, the cache holding nothing under the hash looked up, is a miss
\* whatever else the cache held before.
C23_OtherHashMisses ==
    ( /\ cLast.op = "get" /\ cPrev.op = "set"
      /\ cLast.dataset_id = cPrev.dataset_id /\ cLast.plan_key = cPrev.plan_key
      /\ cLast.schema_hash # cPrev.schema_hash
      /\ _compose_plan_cache_key(cLast.dataset_id, cLast.plan_key, cLast.schema_hash)
            \notin DOMAIN cache )
        => ~cLast.hit

(***************************************************************************)
(* Error classification: agent/sql_llm_generator.py, classify_sql_error.   *)
(* A message is a sequence of characters.                                  *)
(***************************************************************************)
\* sub in s
Contains(s, sub) ==
    \E i \in 1..(Len(s) - Len(sub) + 1) : SubSeq(s, i, i + Len(sub) - 1) = sub

DoesNotExistText == <<"d", "o", "e", "s", " ", "n", "o", "t", " ", "e", "x", "i", "s", "t">>

ColumnText == <<"c", "o", "l", "u", "m", "n">>

TableText == <<"t", "a", "b", "l", "e">>

AmbiguousText == <<"a", "m", "b", "i", "g", "u", "o", "u", "s">>

SyntaxErrorText == <<"s", "y", "n", "t", "a", "x", " ", "e", "r", "r", "o", "r">>

OperatorDoesNotExistText == <<"o", "p", "e", "r", "a", "t", "o", "r", " ", "d", "o", "e", "s", " ", "n", "o", "t", " ", "e", "x", "i", "s", "t">>

TypeText == <<"t", "y", "p", "e">>

TimeoutText == <<"t", "i", "m", "e", "o", "u", "t">>

\* the labels classify_sql_error can return
ErrorLabels ==
    {"missing_column", "missing_table", "ambiguous_reference", "syntax_error",
     "type_mismatch", "timeout", "execution_error"}

\* the rules tried in the order the words come in, not in the order of the code
classify_sql_error_by_word(message) ==
    LET text == Lower(message)
    IN  IF Contains(text, AmbiguousText) THEN "ambiguous_reference"
        ELSE IF Contains(text, TimeoutText) THEN "timeout"
        ELSE IF Contains(text, DoesNotExistText) /\ Contains(text, ColumnText)
        THEN "missing_column"
        ELSE IF Contains(text, DoesNotExistText) /\ Contains(text, TableText)
        THEN "missing_table"
        ELSE IF Contains(text, SyntaxErrorText) THEN "syntax_error"
        ELSE IF Contains(text, OperatorDoesNotExistText) \/ Contains(text, TypeText)
        THEN "type_mismatch"
        ELSE "execution_error"

\* classify_sql_error(exc), message standing for str(exc)
classify_sql_error(message) ==
    LET text == Lower(message)
    IN  IF Contains(text, DoesNotExistText) /\ Contains(text, ColumnText)
        THEN "missing_column"
        ELSE IF Contains(text, DoesNotExistText) /\ Contains(text, TableText)
        THEN "missing_table"
        ELSE IF Contains(text, AmbiguousText) THEN "ambiguous_reference"
        ELSE IF Contains(text, SyntaxErrorText) THEN "syntax_error"
        ELSE IF Contains(text, OperatorDoesNotExistText) \/ Contains(text, TypeText)
        THEN "type_mismatch"
        ELSE IF Contains(text, TimeoutText) THEN "timeout"
        ELSE "execution_error"

\* the words an error message is made of
MessageWords ==
    {DoesNotExistText, ColumnText, TableText, AmbiguousText, SyntaxErrorText,
     <<"o", "p", "e", "r", "a", "t", "o", "r">>, TypeText, TimeoutText,
     <<"T", "I", "M", "E", "O", "U", "T">>, <<"C", "o", "l", "u", "m", "n">>, <<"r", "e", "l", "a", "t", "i", "o", "n">>}

MaxWords == 3

RECURSIVE JoinWords(_)
\* the words separated by single blanks
JoinWords(ws) ==
    IF ws = <<>> THEN <<>>
    ELSE IF Len(ws) = 1 THEN ws[1]
    ELSE ws[1] \o <<" ">> \o JoinWords(Tail(ws))

\* the messages classified: up to MaxWords words
ErrorMessages ==
    {JoinWords(ws) : ws \in UNION {[1..n -> MessageWords] : n \in 0..MaxWords}}

InitClassify ==
    /\ kPc = "ready"
    /\ kMessage \in ErrorMessages
    /\ kLabel = "none"
    /\ ValidateOff /\ AllowOff /\ CacheOff /\ AnalyzeOff /\ SnapshotOff
    /\ RenderOff /\ BuilderOff /\ OthersOff

\* label = classify_sql_error(exc)
ClassifySqlError ==
    /\ kPc = "ready"
    /\ kLabel' = classify_sql_error(kMessage)
    /\ kPc' = "done"
    /\ UNCHANGED <<kMessage, validateVars, allowVars, cacheVars, analyzeVars, snapshotVars,
                   renderVars, builderVars, otherVars>>

NextClassify == ClassifySqlError

SpecClassify == InitClassify /\ [][NextClassify]_vars

\* "does not exist" with word w, in the lower-cased text
MissingRule(text, w) == Contains(text, DoesNotExistText) /\ Contains(text, w)

\* the text matches the rule whose label is type_mismatch
TypeRule(text) == Contains(text, OperatorDoesNotExistText) \/ Contains(text, TypeText)

\* C20 as stated: the label is one of the seven, and a message containing
\* "does not exist" and "column" is missing_column, one containing "ambiguous"
\* is ambiguous_reference, one containing "timeout" is timeout, and one
\* matching no rule is execution_error.
C20_AsStated ==
    kPc = "done" =>
        /\ kLabel \in ErrorLabels
        /\ MissingRule(kMessage, ColumnText) => kLabel = "missing_column"
        /\ Contains(kMessage, AmbiguousText) => kLabel = "ambiguous_reference"
        /\ Contains(kMessage, TimeoutText) => kLabel = "timeout"
        /\ (LET text == Lower(kMessage)
            IN  ~MissingRule(text, ColumnText) /\ ~MissingRule(text, TableText)
                /\ ~Contains(text, AmbiguousText) /\ ~Contains(text, SyntaxErrorText)
                /\ ~TypeRule(text) /\ ~Contains(text, TimeoutText))
           => kLabel = "execution_error"

\* C20: the label is one of the seven; with the message compared in lower
\* case, "does not exist" with "column" is missing_column; "ambiguous" is
\* ambiguous_reference unless "does not exist" comes with "column" or "table";
\* "timeout" is timeout unless one of the five rules before it matches; a
\* message matching no rule is execution_error.
C20_FirstMatchingRule ==
    kPc = "done" =>
        LET text == Lower(kMessage)
            missing == MissingRule(text, ColumnText) \/ MissingRule(text, TableText)
            earlier == missing \/ Contains(text, AmbiguousText)
                          \/ Contains(text, SyntaxErrorText) \/ TypeRule(text)
        IN  /\ kLabel \in ErrorLabels
            /\ MissingRule(text, ColumnText) => kLabel = "missing_column"
            /\ (Contains(text, AmbiguousText) /\ ~missing) => kLabel = "ambiguous_reference"
            /\ (Contains(text, TimeoutText) /\ ~earlier) => kLabel = "timeout"
            /\ (~earlier /\ ~Contains(text, TimeoutText)) => kLabel = "execution_error"

\* a message with both "ambiguous" and "timeout", and one in upper case
C20_Witness ==
    /\ kPc = "done"
    /\ Contains(kMessage, AmbiguousText)
    /\ Contains(Lower(kMessage), TimeoutText)
    /\ ~Contains(kMessage, TimeoutText)
    /\ kLabel = "ambiguous_reference"

(***************************************************************************)
(* The analyze orchestrator: api/routes.py, _run_analyze, the path taken   *)
(* when the plan needs no snapshot and SQL_LLM_ENABLED is on.  The drafter *)
(* and the database are the environment: each call of one of them draws    *)
(* its answer from a small set.                                            *)
(***************************************************************************)
\* load_schema_metadata(request.dataset_id) if request.dataset_id else None
load_schema_metadata(d) == IF d = "" THEN NoMetadata ELSE DatasetMetadata

\* (dataset_record or {}).get("schema_hash")
SchemaHashOf(d) == IF d = "" THEN "" ELSE "h1"

\* _build_plan_cache_key(plan): the one plan of the request
plan_cache_key == "p1"

Raised(type, kind, message, n) ==
    [type |-> type, kind |-> kind, message |-> message, execution |-> n]

\* evaluate_result(rows)
evaluate_result(result_rows) ==
    IF result_rows = <<>>
    THEN [status |-> "retry", reason |-> "query_returned_no_rows"]
    ELSE [status |-> "ok", reason |-> "None"]

\* what the database does with a validated statement
ExecOutcomes == {"rows", "empty", "database_error", "configuration_error", "type_error"}

\* execute_safe_query on a statement whose validation gave v, as call number n
Executed(v, outcome, n) ==
    IF ~v.ok
    THEN [raised |-> TRUE, rows |-> <<>>,
          exc |-> Raised("UnsafeSQLError", "guardrail", v.error, n)]
    ELSE CASE outcome = "rows" -> [raised |-> FALSE, rows |-> <<"row">>, exc |-> NoException]
           [] outcome = "empty" -> [raised |-> FALSE, rows |-> <<>>, exc |-> NoException]
           [] outcome = "database_error" ->
                [raised |-> TRUE, rows |-> <<>>,
                 exc |-> Raised("DatabaseError", "execution", "syntax error at or near", n)]
           [] outcome = "configuration_error" ->
                [raised |-> TRUE, rows |-> <<>>,
                 exc |-> Raised("ValueError", "configuration", "DB_HOST is required", n)]
           [] OTHER ->
                [raised |-> TRUE, rows |-> <<>>,
                 exc |-> Raised("TypeError", "type_error", "unexpected keyword argument", n)]

execute_safe_query(statement, outcome, n) == Executed(validate_sql(statement), outcome, n)

\* the outcomes of the call and, after a TypeError, of the call made again
ExecutionRuns ==
    {<<o>> : o \in ExecOutcomes \ {"type_error"}}
    \cup {<<"type_error", o>> : o \in {"rows", "type_error"}}

\* try: execute_safe_query(..., db_engine=...) except TypeError: execute_safe_query(...)
ExecuteAgain(first, statement, run, n) ==
    IF first.raised /\ first.exc.type = "TypeError" /\ Len(run) = 2
    THEN [result |-> execute_safe_query(statement, run[2], n + 2), calls |-> 2]
    ELSE [result |-> first, calls |-> 1]

ExecuteWithFallback(statement, run, n) ==
    ExecuteAgain(execute_safe_query(statement, run[1], n + 1), statement, run, n)

DropStatement == <<"D", "R", "O", "P", " ", "t">>

AuditQuery == <<"s", "e", "l", "e", "c", "t", " ", "*", " ", "f", "r", "o", "m", " ">> \o InternalAudit

\* what the drafter may answer: a JSON object with this sql, or a TypeError
DrafterAnswers ==
    {[kind |-> "text", text |-> t] :
        t \in {SqlA, SqlB \o <<";">>, DropStatement, AuditQuery, <<" ">>}}
    \cup {[kind |-> "type_error", text |-> <<>>]}

\* generate_sql_from_plan, g what it does with the drafter's text
Drafted(answer, g) ==
    CASE answer.kind = "type_error" ->
            [raised |-> TRUE, sql |-> <<>>,
             exc |-> Raised("TypeError", "type_error", "unexpected keyword argument", 0)]
      [] OTHER ->
            IF g.status = "ok" THEN [raised |-> FALSE, sql |-> g.sql, exc |-> NoException]
            ELSE IF g.status = "unsafe_sql"
            THEN [raised |-> TRUE, sql |-> <<>>,
                  exc |-> Raised("UnsafeSQLError", "guardrail", g.error, 0)]
            ELSE [raised |-> TRUE, sql |-> <<>>,
                  exc |-> Raised("RuntimeError",
                                 IF g.error = "SQL generator response missing sql"
                                 THEN "missing_sql" ELSE "allowlist",
                                 g.error, 0)]

Draft(answer, metadata) == Drafted(answer, generate_sql_from_plan(answer.text, metadata))

DraftRuns ==
    {<<a>> : a \in {b \in DrafterAnswers : b.kind # "type_error"}}
    \cup {<<[kind |-> "type_error", text |-> <<>>], a>> :
            a \in {[kind |-> "text", text |-> SqlA], [kind |-> "type_error", text |-> <<>>]}}

\* try: generate_sql_from_plan(..., trace_id=...) except TypeError: generate_sql_from_plan(...)
DraftAgain(first, run, metadata) ==
    IF first.raised /\ first.exc.type = "TypeError" /\ Len(run) = 2
    THEN [result |-> Draft(run[2], metadata), calls |-> 2]
    ELSE [result |-> first, calls |-> 1]

DraftWithFallback(run, metadata) == DraftAgain(Draft(run[1], metadata), run, metadata)

\* a guardrail or allow-list rejection
IsRejection(exc) == exc.kind \in {"guardrail", "allowlist"}

\* every way one drafting (the call and, after a TypeError, the call made
\* again) can end, for each dataset metadata
DraftResults ==
    [m \in {NoMetadata, DatasetMetadata} |-> {DraftWithFallback(run, m) : run \in DraftRuns}]

\* stands for a drafting that the turn does not get to
NoDraft == [result |-> [raised |-> FALSE, sql |-> <<>>, exc |-> NoException], calls |-> 0]

\* the ways a regeneration can end when the turn makes it, NoDraft when it does not
DraftsIf(made, d) == IF made THEN DraftResults[load_schema_metadata(d)] ELSE {NoDraft}

\* the locals of _run_analyze that the loop reads and writes
Locals ==
    [sql |-> rSql, cache_hit |-> cache_hit, repair_attempt |-> repair_attempt,
     retries_used |-> retries_used, evaluation |-> evaluation, rows |-> rows]

\* a repair that counts the attempt and forgets retries_used
CountRepair_attempt_only(L) ==
    [L EXCEPT !.repair_attempt = @ + 1]

\* repair_attempt += 1; retries_used += 1
CountRepair(L) ==
    [L EXCEPT !.repair_attempt = @ + 1, !.retries_used = @ + 1]

\* the except branch giving up only once repair_attempt exceeds max_repairs
ExceptBranch_past_budget(L, exc, d, used) ==
    IF L.repair_attempt > max_repairs
    THEN [next |-> "raise", exc |-> exc, locals |-> L, used |-> used]
    ELSE IF d.result.raised
    THEN [next |-> "raise", exc |-> d.result.exc, locals |-> CountRepair(L), used |-> used + 1]
    ELSE [next |-> "continue", exc |-> NoException,
          locals |-> [CountRepair(L) EXCEPT !.sql = d.result.sql], used |-> used + 1]

\* except (UnsafeSQLError, Exception) as exc: ..., d the regeneration it makes
ExceptBranch(L, exc, d, used) ==
    IF L.repair_attempt >= max_repairs
    THEN [next |-> "raise", exc |-> exc, locals |-> L, used |-> used]
    ELSE IF d.result.raised
    THEN [next |-> "raise", exc |-> d.result.exc, locals |-> CountRepair(L), used |-> used + 1]
    ELSE [next |-> "continue", exc |-> NoException,
          locals |-> [CountRepair(L) EXCEPT !.sql = d.result.sql], used |-> used + 1]

\* the regeneration of the retry branch, made inside the try block
RetryBranch(L, d1, d2) ==
    IF d1.result.raised
    THEN ExceptBranch(L, d1.result.exc, d2, 1)
    ELSE [next |-> "continue", exc |-> NoException,
          locals |-> [L EXCEPT !.sql = d1.result.sql], used |-> 1]

\* the retry test letting repair_attempt reach max_repairs + 1
Evaluated_one_more(L, d1, d2) ==
    IF L.evaluation.status = "retry" /\ L.repair_attempt <= max_repairs
    THEN RetryBranch(CountRepair(L), d1, d2)
    ELSE [next |-> "break", exc |-> NoException, locals |-> L, used |-> 0]

\* after evaluation = evaluate_result(rows)
Evaluated(L, d1, d2) ==
    IF L.evaluation.status = "retry" /\ L.repair_attempt < max_repairs
    THEN RetryBranch(CountRepair(L), d1, d2)
    ELSE [next |-> "break", exc |-> NoException, locals |-> L, used |-> 0]

\* one turn of while True: x the execution, d1 and d2 the regenerations
TryBranch(L, x, d1, d2) ==
    IF x.result.raised
    THEN ExceptBranch(L, x.result.exc, d1, 0)
    ELSE Evaluated([L EXCEPT !.rows = x.result.rows,
                             !.evaluation = evaluate_result(x.result.rows)], d1, d2)

\* if evaluation["status"] == "ok" and sql and not cache_hit
WritesCache(t) ==
    /\ t.next = "break"
    /\ t.locals.evaluation.status = "ok"
    /\ t.locals.sql # <<>>
    /\ ~t.locals.cache_hit

\* a trace record that leaves the error out
TraceRecord_without_error(L, error) ==
    [dataset_id |-> rDatasetId, schema_hash |-> SchemaHashOf(rDatasetId),
     sql |-> L.sql, cache_hit |-> L.cache_hit,
     evaluation_status |-> L.evaluation.status,
     evaluation_reason |-> L.evaluation.reason,
     row_count |-> Len(L.rows), retries_used |-> L.retries_used, error |-> "None"]

\* the record handed to append_query_trace in the finally block
TraceRecord(L, error) ==
    [dataset_id |-> rDatasetId, schema_hash |-> SchemaHashOf(rDatasetId),
     sql |-> L.sql, cache_hit |-> L.cache_hit,
     evaluation_status |-> L.evaluation.status,
     evaluation_reason |-> L.evaluation.reason,
     row_count |-> Len(L.rows), retries_used |-> L.retries_used, error |-> error]

\* except UnsafeSQLError: analysis_error = f"unsafe_sql::{exc}"; except Exception: str(exc)
AnalysisError(exc) ==
    IF exc.type = "none" THEN "None"
    ELSE IF exc.type = "UnsafeSQLError" THEN "unsafe_sql::" \o exc.message
    ELSE exc.message

\* the HTTPException raised from exc
HttpError(exc) ==
    IF exc.type = "UnsafeSQLError"
    THEN [status_code |-> 400, detail |-> exc.message, cause |-> exc]
    ELSE [status_code |-> 500, detail |-> "Execution error: " \o exc.message, cause |-> exc]

\* AnalyzeResponse(**base_payload)
Payload(L) ==
    [status_code |-> 200, sql |-> L.sql, evaluator_status |-> L.evaluation.status,
     evaluator_reason |-> L.evaluation.reason, retries_used |-> L.retries_used,
     rows |-> L.rows]

\* the end of the request: the except clauses, the finally block, the response;
\* appended is whether append_query_trace succeeded (its failure is swallowed)
Finish(L, exc, appended) ==
    /\ rPc' = "done"
    /\ analysis_error' = AnalysisError(exc)
    /\ traces' = IF appended THEN Append(traces, TraceRecord(L, AnalysisError(exc))) ELSE traces
    /\ response' = IF exc.type = "none" THEN Payload(L) ELSE HttpError(exc)

SetLocals(L) ==
    /\ rSql' = L.sql
    /\ cache_hit' = L.cache_hit
    /\ repair_attempt' = L.repair_attempt
    /\ retries_used' = L.retries_used
    /\ evaluation' = L.evaluation
    /\ rows' = L.rows

RejectedBy(result) == result.raised /\ IsRejection(result.exc)

ConfigFailedBy(result) == result.raised /\ result.exc.kind = "configuration"

\* the calls of a turn that come after a rejection
CallsAfterRejection(h, x, d1, d2) ==
    IF h.rejected THEN x.calls + d1.calls + d2.calls
    ELSE IF RejectedBy(x.result) THEN d1.calls + d2.calls
    ELSE IF RejectedBy(d1.result) THEN d2.calls
    ELSE 0

\* the record of the initial drafting d
DraftedHistory(h, d) ==
    [h EXCEPT !.draftings = @ + d.calls,
              !.sqlFrom = IF d.result.raised THEN @ ELSE "drafter",
              !.rejected = RejectedBy(d.result),
              !.raisedAny = d.result.raised \/ d.calls = 2]

\* the record of one turn of the loop that ended as t
TurnHistory(h, x, d1, d2, t) ==
    [h EXCEPT !.executions = @ + x.calls,
              !.turns = @ + 1,
              !.repairs = @ + t.used,
              !.repairCalls = @ + d1.calls + d2.calls,
              !.everyExecutionFailed =
                    @ /\ x.calls = 1 /\ x.result.raised
                      /\ x.result.exc.kind \in {"execution", "configuration"},
              !.everyRepairSucceeded =
                    @ /\ ~d1.result.raised /\ d1.calls <= 1
                      /\ ~d2.result.raised /\ d2.calls <= 1,
              !.sqlFrom = IF t.next = "continue" THEN "drafter" ELSE @,
              !.rejected = @ \/ RejectedBy(x.result) \/ RejectedBy(d1.result)
                             \/ RejectedBy(d2.result),
              !.afterRejection = @ + CallsAfterRejection(h, x, d1, d2),
              !.cacheWrites = @ + (IF WritesCache(t) THEN 1 ELSE 0),
              !.firstStatement = IF h.executions = 0 THEN rSql ELSE @,
              !.everyExecutionEmpty =
                    @ /\ x.calls = 1 /\ ~x.result.raised /\ x.result.rows = <<>>,
              !.raisedAny = @ \/ x.result.raised \/ x.calls = 2
                              \/ d1.result.raised \/ d1.calls = 2
                              \/ d2.result.raised \/ d2.calls = 2,
              !.configFailed = @ \/ ConfigFailedBy(x.result),
              !.afterConfigFailure =
                    @ + (IF h.configFailed THEN x.calls + d1.calls + d2.calls
                         ELSE IF ConfigFailedBy(x.result) THEN d1.calls + d2.calls
                         ELSE 0)]

\* the record of the finally block: ended is whether the request ends here
TracedHistory(h, ended, appended) ==
    [h EXCEPT !.appendCalls = @ + (IF ended THEN 1 ELSE 0),
              !.appendFailed = ended /\ ~appended]

MaxRepairs == 2

\* the trace log as an earlier request left it
EarlierTraces ==
    << [dataset_id |-> "", schema_hash |-> "", sql |-> SqlB, cache_hit |-> FALSE,
        evaluation_status |-> "ok", evaluation_reason |-> "None",
        row_count |-> 1, retries_used |-> 1, error |-> "None"] >>

\* the cache as earlier requests for the same dataset and plan may have left it
AnalyzeCaches(b, d) ==
    {EmptyCache}
    \cup {[k \in {_compose_plan_cache_key(d, plan_cache_key, SchemaHashOf(d))} |->
             IF b = "postgres"
             THEN [sql |-> q, schema_hash |-> SchemaHashOf(d),
                   dataset_id |-> d, plan_key |-> plan_cache_key]
             ELSE [sql |-> q, schema_hash |-> SchemaHashOf(d)]] :
          q \in {SqlA, SqlB}}

\* use_snapshot: the plan asks for a mined result and either the dataset has
\* metadata or the plan covers every entity
use_snapshot ==
    /\ rPlan.intent \in {"trend_analysis", "customer_segmentation"}
    /\ \/ load_schema_metadata(rDatasetId).present
       \/ (rPlan.entity_scope = "all" /\ rPlan.entity_dimension = "")

\* the cache-hit branch leaving the cache_hit flag as it was
UseCachedSql_unflagged(c) ==
    /\ c.hit /\ c.sql # <<>>
    /\ rSql' = c.sql
    /\ cache_hit' = cache_hit
    /\ rPc' = "loop"
    /\ history' = [history EXCEPT !.sqlFrom = "cache", !.lookedUp = c.sql,
                                  !.cacheReads = @ + 1]
    /\ UNCHANGED <<analysis_error, response, traces>>

\* cached_sql = get_cached_sql(...); if cached_sql: sql = cached_sql; cache_hit = True
UseCachedSql(c) ==
    /\ c.hit /\ c.sql # <<>>
    /\ rSql' = c.sql
    /\ cache_hit' = TRUE
    /\ rPc' = "loop"
    /\ history' = [history EXCEPT !.sqlFrom = "cache", !.lookedUp = c.sql,
                                  !.cacheReads = @ + 1]
    /\ UNCHANGED <<analysis_error, response, traces>>

\* else: sql = generate_sql_from_plan(...), d how that drafting ends
DraftInitialSql(c, d, appended) ==
    /\ ~(c.hit /\ c.sql # <<>>)
    /\ history' = TracedHistory(DraftedHistory([history EXCEPT !.lookedUp = c.sql,
                                                               !.cacheReads = @ + 1], d),
                                d.result.raised, appended)
    /\ cache_hit' = FALSE
    /\ IF d.result.raised
       THEN /\ appended \in BOOLEAN
            /\ rSql' = rSql
            /\ Finish(Locals, d.result.exc, appended)
       ELSE /\ appended = TRUE
            /\ rSql' = d.result.sql
            /\ rPc' = "loop"
            /\ UNCHANGED <<analysis_error, response, traces>>

\* _run_analyze from the cache lookup to repair_attempt = 0
BeginAnalyze ==
    /\ rPc = "start"
    /\ ~use_snapshot
    /\ \E c \in {get_cached_sql(cache, rDatasetId, plan_cache_key, SchemaHashOf(rDatasetId))} :
         \/ UseCachedSql(c)
         \/ \E d \in DraftResults[load_schema_metadata(rDatasetId)], appended \in BOOLEAN :
                DraftInitialSql(c, d, appended)
    /\ UNCHANGED <<max_repairs, rDatasetId, rPlan, repair_attempt, retries_used,
                   evaluation, rows, backend, cache, cCalls, cPrev, cLast, validateVars, allowVars,
                   snapshotVars, functionVars>>

\* a turn that ended as t: continue, break (writing the cache or not) or raise
EndTurn(t, appended) ==
    /\ SetLocals(t.locals)
    /\ cache' = IF WritesCache(t)
                THEN set_cached_sql(cache, rDatasetId, plan_cache_key, t.locals.sql,
                                    SchemaHashOf(rDatasetId))
                ELSE cache
    /\ IF t.next = "continue"
       THEN /\ appended = TRUE
            /\ UNCHANGED <<rPc, analysis_error, response, traces>>
       ELSE Finish(t.locals, t.exc, appended)

\* one turn of while True, with the regenerations it makes
LoopIteration ==
    /\ rPc = "loop"
    /\ \E x \in {ExecuteWithFallback(rSql, run, history.executions) : run \in ExecutionRuns} :
         \E d1 \in DraftsIf(TryBranch(Locals, x, NoDraft, NoDraft).used >= 1, rDatasetId) :
            \E d2 \in DraftsIf(TryBranch(Locals, x, d1, NoDraft).used >= 2, rDatasetId) :
               \E t \in {TryBranch(Locals, x, d1, d2)}, appended \in BOOLEAN :
                  /\ history' = TracedHistory(TurnHistory(history, x, d1, d2, t),
                                              t.next # "continue", appended)
                  /\ EndTurn(t, appended)
    /\ UNCHANGED <<max_repairs, rDatasetId, rPlan, backend, cCalls, cPrev, cLast,
                   validateVars, allowVars, snapshotVars, functionVars>>

\* the request drafted its first SQL itself, each execution failed in the
\* database layer and each repair regeneration returned SQL
C1_Premise ==
    /\ max_repairs >= 0
    /\ ~cache_hit
    /\ history.turns >= 1
    /\ history.everyExecutionFailed
    /\ history.everyRepairSucceeded

C2_RejectionEndsRequest ==
    history.rejected =>
        /\ history.afterRejection = 0
        /\ rPc = "done"
        /\ response.status_code \in {400, 500}
        /\ IsRejection(response.cause)

\* C10: when the request ends with an ok evaluation of SQL that the drafter
\* produced, initially or by a repair, the cache holds that SQL under the
\* request's (dataset, schema hash, plan) key.
C10_DraftedSqlCached ==
    (rPc = "done" /\ response.status_code = 200 /\ evaluation.status = "ok"
        /\ history.sqlFrom = "drafter")
    => LET key == _compose_plan_cache_key(rDatasetId, plan_cache_key, SchemaHashOf(rDatasetId))
       IN  key \in DOMAIN cache /\ cache[key].sql = rSql

\* C11: when get_cached_sql returned an entry on entry to the LLM path, the
\* cache_hit flag is true, the drafter was not called before the first
\* execution, and the SQL handed to the first execution is exactly the cached
\* SQL.
C11_CacheHitRunsCachedSql ==
    (rPc # "start" /\ history.lookedUp # <<>>) =>
        /\ cache_hit
        /\ history.draftings = 0
        /\ history.executions = 0 => (rSql = history.lookedUp /\ history.repairCalls = 0)
        /\ history.executions >= 1 => history.firstStatement = history.lookedUp

\* a cache hit whose SQL was executed first and then replaced by a repair
C11_Witness ==
    /\ rPc = "done"
    /\ history.lookedUp = SqlA
    /\ history.firstStatement = SqlA
    /\ history.executions >= 2
    /\ history.draftings = 0
    /\ rSql # SqlA
    /\ cache_hit

\* the request ended, each execution returned no rows and no call raised
C12_Premise ==
    /\ rPc = "done"
    /\ history.turns >= 1
    /\ history.everyExecutionEmpty
    /\ ~history.raisedAny

\* the soft failure: the empty rows of the last execution, status retry
C12_SoftFailure ==
    /\ response.status_code = 200
    /\ response.rows = <<>>
    /\ response.evaluator_status = "retry"
    /\ response.evaluator_reason = "query_returned_no_rows"
    /\ analysis_error = "None"
    /\ history.cacheWrites = 0

\* C12 as stated: with only empty results and no exception the request ends
\* with the soft failure and retries_used equal to the maximum repair count.
C12_AsStated ==
    C12_Premise => (C12_SoftFailure /\ response.retries_used = max_repairs)

\* C12: with only empty results and no exception the request ends without
\* raising: empty rows, evaluation retry / query_returned_no_rows, nothing
\* written to the cache, and retries_used equal to the maximum repair count,
\* or to 0 when SQL_REPAIR_MAX_RETRIES is negative.
C12_EmptyResultsSoftFailure ==
    C12_Premise =>
        /\ C12_SoftFailure
        /\ response.retries_used = (IF max_repairs < 0 THEN 0 ELSE max_repairs)
        /\ history.executions = response.retries_used + 1

\* N = 2: three empty executions, two regenerations, then the soft failure
C12_Witness ==
    /\ C12_Premise
    /\ max_repairs = 2
    /\ history.executions = 3
    /\ response.status_code = 200
    /\ response.retries_used = 2

\* the characters of the messages the database layer raises here
ExceptionText(message) ==
    CASE message = "syntax error at or near" -> <<"s", "y", "n", "t", "a", "x", " ", "e", "r", "r", "o", "r", " ", "a", "t", " ", "o", "r", " ", "n", "e", "a", "r">>
      [] message = "DB_HOST is required" -> <<"D", "B", "_", "H", "O", "S", "T", " ", "i", "s", " ", "r", "e", "q", "u", "i", "r", "e", "d">>

\* detail=f"Execution error: {exc}", as characters
HttpDetailText(exc) ==
    <<"E", "x", "e", "c", "u", "t", "i", "o", "n", " ", "e", "r", "r", "o", "r", ":", " ">> \o ExceptionText(exc.message)

\* the seven labels as they would be written in a text
ErrorLabelTexts ==
    {<<"m", "i", "s", "s", "i", "n", "g", "_", "c", "o", "l", "u", "m", "n">>,
     <<"m", "i", "s", "s", "i", "n", "g", "_", "t", "a", "b", "l", "e">>,
     <<"a", "m", "b", "i", "g", "u", "o", "u", "s", "_", "r", "e", "f", "e", "r", "e", "n", "c", "e">>,
     <<"s", "y", "n", "t", "a", "x", "_", "e", "r", "r", "o", "r">>,
     <<"t", "y", "p", "e", "_", "m", "i", "s", "m", "a", "t", "c", "h">>,
     <<"t", "i", "m", "e", "o", "u", "t">>,
     <<"e", "x", "e", "c", "u", "t", "i", "o", "n", "_", "e", "r", "r", "o", "r">>}

\* the request ended with the exception of its last execution, the repair
\* budget used up
C13_Premise ==
    /\ rPc = "done"
    /\ max_repairs >= 0
    /\ response.status_code = 500
    /\ response.cause.kind \in {"execution", "configuration"}
    /\ response.cause.execution = history.executions
    /\ repair_attempt >= max_repairs

\* C13: when the repair budget is exhausted with a standing execution
\* exception, what the caller gets carries one of the seven classification
\* labels, the one of that exception, and the last attempted SQL.
C13_ExhaustionCarriesLabelAndSql ==
    C13_Premise =>
        /\ \E label \in ErrorLabelTexts : Contains(HttpDetailText(response.cause), label)
        /\ Contains(HttpDetailText(response.cause), rSql)

\* C14: once an execution has raised a configuration failure, the request is
\* over with that failure as its error and no call of the drafter or of the
\* executor was made after it.
C14_ConfigurationFailureNotRetried ==
    history.configFailed =>
        /\ history.afterConfigFailure = 0
        /\ rPc = "done"
        /\ response.status_code = 500
        /\ response.cause.kind = "configuration"

\* the response as the except clauses and the return build it from the final locals
OutcomeFromLocals ==
    IF analysis_error = "None"
    THEN response = Payload(Locals)
    ELSE /\ response.status_code \in {400, 500}
         /\ response = HttpError(response.cause)
         /\ analysis_error = AnalysisError(response.cause)

\* C24: a request past planning calls append_query_trace exactly once, when it
\* ends, whether it succeeds, soft-fails with "retry" or raises; the record's sql,
\* cache_hit, retries_used, evaluation status and error are the request's final
\* values; the earlier records stay as they were; when the append fails nothing
\* is added and the response is what it would have been.
C24_OneTraceRecord ==
    /\ (rPc \in {"start", "loop"}) => (traces = EarlierTraces /\ history.appendCalls = 0)
    /\ rPc = "done" =>
        /\ history.appendCalls = 1
        /\ OutcomeFromLocals
        /\ history.appendFailed => traces = EarlierTraces
        /\ ~history.appendFailed =>
            /\ Len(traces) = Len(EarlierTraces) + 1
            /\ SubSeq(traces, 1, Len(EarlierTraces)) = EarlierTraces
            /\ traces[Len(traces)].sql = rSql
            /\ traces[Len(traces)].cache_hit = cache_hit
            /\ traces[Len(traces)].retries_used = retries_used
            /\ traces[Len(traces)].evaluation_status = evaluation.status
            /\ traces[Len(traces)].error = analysis_error

\* a request that raised after two repairs left one record with its error
C24_Witness ==
    /\ rPc = "done"
    /\ ~history.appendFailed
    /\ response.status_code = 500
    /\ retries_used = 2
    /\ Len(traces) = 2
    /\ traces[2].error = analysis_error
    /\ traces[2].error # "None"

\* retries_used as the response and the trace record report it
ReportedRetries ==
    /\ (rPc = "done" /\ response.status_code = 200) => response.retries_used = retries_used
    /\ (rPc = "done" /\ ~history.appendFailed) =>
            traces[Len(traces)].retries_used = retries_used

\* two turns of one execution each: the first raised or came back empty and was
\* repaired by one regeneration that returned SQL, the second returned rows
FailedThenSucceeded ==
    /\ rPc = "done"
    /\ history.turns = 2 /\ history.executions = 2
    /\ history.everyRepairSucceeded
    /\ evaluation.status = "ok"

RepairBudget == IF max_repairs >= 0 THEN max_repairs ELSE 0

\* C27 as stated: at most max(N,0)+1 calls of execute_safe_query and at most
\* max(N,0) repair regenerations happen in one request.
C27_AsStated ==
    /\ history.executions <= RepairBudget + 1
    /\ history.repairCalls <= RepairBudget

\* C27 as amended: for every drafter, executor and maximum repair count N the
\* loop ends after at most max(N,0)+1 turns and max(N,0) repair regenerations:
\* every turn that does not end the request raises repair_attempt, which never
\* passes max(N,0); a turn makes one call of execute_safe_query and a
\* regeneration one call of generate_sql_from_plan, or two when the first
\* raises TypeError.
C27_LoopTerminates ==
    /\ repair_attempt <= RepairBudget
    /\ history.repairs = repair_attempt
    /\ rPc = "loop" => history.turns <= repair_attempt
    /\ history.turns <= repair_attempt + 1
    /\ history.turns <= RepairBudget + 1
    /\ history.repairs <= RepairBudget
    /\ history.executions <= 2 * history.turns
    /\ history.repairCalls <= 2 * history.repairs

\* N = 2: an empty result whose regeneration failed and was regenerated again,
\* then an execution that raised and ended the request
C27_Witness ==
    /\ rPc = "done"
    /\ max_repairs = 2
    /\ history.turns = 2 /\ history.repairs = 2
    /\ ~history.everyRepairSucceeded
    /\ ~history.everyExecutionFailed
    /\ response.status_code = 500

(***************************************************************************)
(* Snapshot store: mining/snapshots.py.  Time is counted in hours, a date  *)
(* is a day number and 0 stands for no date (None).  One snapshot type is  *)
(* followed; the callers differ in the dataset, plan and metadata they     *)
(* pass, which select the row and the staleness rule.                      *)
(***************************************************************************)
\* int(os.getenv("MINING_SNAPSHOT_TTL_HOURS", "24"))
ttl_hours == 24

DEFAULT_DATASET_ID == "__default__"

DEFAULT_SCOPE_KEY == "all"

\* the arguments of a call: dataset_id ("" for None), whether a plan is passed,
\* whether dataset metadata are passed
CallShapes ==
    { [dataset_id |-> "", plan |-> FALSE, metadata |-> FALSE],
      [dataset_id |-> "ds1", plan |-> TRUE, metadata |-> TRUE],
      [dataset_id |-> "ds1", plan |-> TRUE, metadata |-> FALSE] }

\* json.dumps of the plan's scoping fields, "all" without a plan
_build_scope_key(plan) == IF ~plan THEN DEFAULT_SCOPE_KEY ELSE "{\"entity_scope\": \"all\"}"

SNAPSHOT_TYPES == {"trend_analysis", "customer_segmentation"}

\* the snapshot type is trend_analysis where the caller's shape names none
SnapshotType(shape) ==
    IF "snapshot_type" \in DOMAIN shape THEN shape.snapshot_type ELSE "trend_analysis"

SnapshotKey(shape) ==
    << SnapshotType(shape),
       IF shape.dataset_id = "" THEN DEFAULT_DATASET_ID ELSE shape.dataset_id,
       _build_scope_key(shape.plan) >>

\* the payload computed from source data whose latest date is src
_build_snapshot_payload(shape, src) == [computed_from |-> src]

\* with metadata and a plan the date comes out of the payload's rows,
\* otherwise it is read from the fact table
SourceMaxDate(shape, payload, src) ==
    IF shape.metadata /\ shape.plan THEN payload.computed_from ELSE src

\* an upsert that writes snapshot_version 1 also over an existing row
UpsertSnapshot_version_one(table, key, payload, source_max_date, run_id, ts) ==
    [k \in DOMAIN table \cup {key} |->
        IF k = key
        THEN [snapshot_json |-> payload, source_max_date |-> source_max_date,
              snapshot_version |-> 1, run_id |-> run_id, generated_at |-> ts]
        ELSE table[k]]

\* INSERT ... VALUES (..., 1, ...) ON CONFLICT ... DO UPDATE SET
\* snapshot_version = mining_snapshots.snapshot_version + 1, ...
UpsertSnapshot(table, key, payload, source_max_date, run_id, ts) ==
    [k \in DOMAIN table \cup {key} |->
        IF k = key
        THEN [snapshot_json |-> payload, source_max_date |-> source_max_date,
              snapshot_version |-> IF key \in DOMAIN table
                                   THEN table[key].snapshot_version + 1 ELSE 1,
              run_id |-> run_id, generated_at |-> ts]
        ELSE table[k]]

\* the dict built from a row
SnapshotDict(row, refreshed) ==
    [snapshot_json |-> row.snapshot_json, source_max_date |-> row.source_max_date,
     snapshot_version |-> row.snapshot_version, run_id |-> row.run_id,
     generated_at |-> row.generated_at, refreshed |-> refreshed]

NoSnapshot ==
    [snapshot_json |-> [computed_from |-> 0], source_max_date |-> 0, snapshot_version |-> 0,
     run_id |-> 0, generated_at |-> 0, refreshed |-> FALSE]

\* what refresh_snapshot leaves once the upsert has given table
Refreshed(table, key) ==
    [outcome |-> "refreshed", table |-> table, snapshot |-> SnapshotDict(table[key], TRUE)]

\* a db_cursor that commits what was written also when the block raises
db_cursor_commit_always(table, written, raises) ==
    IF raises THEN [outcome |-> "raised", table |-> written]
    ELSE [outcome |-> "committed", table |-> written]

\* db_cursor(write=True) around statements that turn table into written:
\* commit when the block ends, rollback when it raises
db_cursor(table, written, raises) ==
    IF raises THEN [outcome |-> "raised", table |-> table]
    ELSE [outcome |-> "committed", table |-> written]

\* refresh_snapshot: computing is how the payload computation and the upsert go
refresh_snapshot(table, shape, computing, src, run_id, ts) ==
    LET written == UpsertSnapshot(table, SnapshotKey(shape),
                                  _build_snapshot_payload(shape, src),
                                  SourceMaxDate(shape, _build_snapshot_payload(shape, src), src),
                                  run_id, ts)
        ended == db_cursor(table, written, computing = "upsert_error")
    IN  IF SnapshotType(shape) \notin SNAPSHOT_TYPES \/ computing = "payload_error"
        THEN [outcome |-> "raised", table |-> table, snapshot |-> NoSnapshot]
        ELSE IF ended.outcome = "raised"
        THEN [outcome |-> "raised", table |-> ended.table, snapshot |-> NoSnapshot]
        ELSE Refreshed(ended.table, SnapshotKey(shape))

\* _is_stale with the metadata-and-plan shortcut taken before the age test
_is_stale_shortcut_first(snapshot, shape, ts, src) ==
    IF shape.metadata /\ shape.plan THEN FALSE
    ELSE IF ts - snapshot.generated_at > ttl_hours THEN TRUE
    ELSE snapshot.source_max_date # src

\* _is_stale: a stored row always has generated_at
_is_stale(snapshot, shape, ts, src) ==
    IF ts - snapshot.generated_at > ttl_hours THEN TRUE
    ELSE IF shape.metadata /\ shape.plan THEN FALSE
    ELSE snapshot.source_max_date # src

\* a get_snapshot that refreshes a stale row whatever refresh_if_stale says
get_snapshot_ignoring_flag(table, shape, refresh_if_stale, computing, src, run_id, ts) ==
    IF SnapshotKey(shape) \notin DOMAIN table
    THEN refresh_snapshot(table, shape, computing, src, run_id, ts)
    ELSE IF _is_stale(SnapshotDict(table[SnapshotKey(shape)], FALSE), shape, ts, src)
    THEN refresh_snapshot(table, shape, computing, src, run_id, ts)
    ELSE [outcome |-> "returned", table |-> table,
          snapshot |-> SnapshotDict(table[SnapshotKey(shape)], FALSE)]

\* get_snapshot
get_snapshot(table, shape, refresh_if_stale, computing, src, run_id, ts) ==
    IF SnapshotKey(shape) \notin DOMAIN table
    THEN refresh_snapshot(table, shape, computing, src, run_id, ts)
    ELSE IF refresh_if_stale
            /\ _is_stale(SnapshotDict(table[SnapshotKey(shape)], FALSE), shape, ts, src)
    THEN refresh_snapshot(table, shape, computing, src, run_id, ts)
    ELSE [outcome |-> "returned", table |-> table,
          snapshot |-> SnapshotDict(table[SnapshotKey(shape)], FALSE)]

MaxSnapshotCalls == 3

MaxTicks == 2

MaxDate == 1

\* the clock advances by an hour or by a day
TickHours == {1, 24}

\* the arguments of the refresh_snapshot calls: the shapes above and one that
\* names a snapshot type the module does not know
RefreshShapes ==
    CallShapes \cup
    { [dataset_id |-> "", plan |-> FALSE, metadata |-> FALSE, snapshot_type |-> "basket"] }

\* how the payload computation and the upsert of a refresh go
Computings == {"ok", "payload_error", "upsert_error"}

InitSnapshot ==
    /\ snapshots = EmptyStore
    /\ now = 0
    /\ ticks = 0
    /\ source_max = 0
    /\ uuids = 0
    /\ sCalls = 0
    /\ sLast = NoSnapshotCall
    /\ refreshers = <<>>
    /\ commits = <<>>
    /\ ValidateOff /\ AllowOff /\ CacheOff /\ AnalyzeOff /\ FunctionsOff

\* the bookkeeping of a call that ended as res
SnapshotCalled(op, shape, refresh_if_stale, computing, res) ==
    /\ snapshots' = res.table
    /\ uuids' = IF \/ res.outcome = "returned"
                   \/ computing = "payload_error"
                   \/ SnapshotType(shape) \notin SNAPSHOT_TYPES
                THEN uuids ELSE uuids + 1
    /\ sCalls' = sCalls + 1
    /\ sLast' = [op |-> op, shape |-> shape, refresh_if_stale |-> refresh_if_stale,
                 at |-> now, src |-> IF op = "get" THEN source_max ELSE 0,
                 before |-> snapshots,
                 outcome |-> res.outcome,
                 returned |-> res.snapshot]
    /\ UNCHANGED <<now, ticks, source_max, refreshers, commits,
                   validateVars, allowVars, cacheVars, analyzeVars, functionVars>>

RefreshSnapshot(shape, computing) ==
    /\ sCalls < MaxSnapshotCalls
    /\ SnapshotCalled("refresh", shape, FALSE, computing,
                      refresh_snapshot(snapshots, shape, computing, source_max, uuids + 1, now))

GetSnapshot(shape, refresh_if_stale, computing) ==
    /\ sCalls < MaxSnapshotCalls
    /\ SnapshotCalled("get", shape, refresh_if_stale, computing,
                      get_snapshot(snapshots, shape, refresh_if_stale, computing,
                                   source_max, uuids + 1, now))

Tick(h) ==
    /\ ticks < MaxTicks
    /\ now' = now + h
    /\ ticks' = ticks + 1
    /\ UNCHANGED <<snapshots, source_max, uuids, sCalls, sLast, refreshers, commits,
                   validateVars, allowVars, cacheVars, analyzeVars, functionVars>>

\* new rows arrive in the source data
AdvanceSource ==
    /\ source_max < MaxDate
    /\ source_max' = source_max + 1
    /\ UNCHANGED <<snapshots, now, ticks, uuids, sCalls, sLast, refreshers, commits,
                   validateVars, allowVars, cacheVars, analyzeVars, functionVars>>

NextSnapshot ==
    \/ \E shape \in RefreshShapes, computing \in Computings : RefreshSnapshot(shape, computing)
    \/ \E shape \in CallShapes, refresh_if_stale \in BOOLEAN, computing \in Computings :
          GetSnapshot(shape, refresh_if_stale, computing)
    \/ \E h \in TickHours : Tick(h)
    \/ AdvanceSource

SpecSnapshot == InitSnapshot /\ [][NextSnapshot]_vars

\* the key of the last call had a row before the call
HadRow == SnapshotKey(sLast.shape) \in DOMAIN sLast.before

RowBefore == sLast.before[SnapshotKey(sLast.shape)]

RowAfter == snapshots[SnapshotKey(sLast.shape)]

\* C6: the first refresh of a key stores version 1; every later refresh, forced
\* or made by get_snapshot on a miss or on staleness, stores a version greater
\* than the one stored before and a different run_id; no call lowers the
\* version of any row or removes a row.
C6_VersionMonotonic ==
    /\ \A k \in DOMAIN sLast.before :
          k \in DOMAIN snapshots
          /\ snapshots[k].snapshot_version >= sLast.before[k].snapshot_version
    /\ sLast.outcome = "refreshed" =>
          /\ sLast.returned.snapshot_version = RowAfter.snapshot_version
          /\ IF HadRow
             THEN /\ RowAfter.snapshot_version > RowBefore.snapshot_version
                  /\ RowAfter.run_id # RowBefore.run_id
             ELSE RowAfter.snapshot_version = 1

\* get_snapshot refreshed a stale row with the payload it already had
C6_Witness ==
    /\ sLast.op = "get" /\ sLast.outcome = "refreshed" /\ HadRow
    /\ RowAfter.snapshot_json = RowBefore.snapshot_json
    /\ RowBefore.snapshot_version = 2
    /\ RowAfter.snapshot_version = 3

\* the last call was get_snapshot with refresh_if_stale on a row older than the TTL
OlderThanTtl ==
    /\ sLast.op = "get" /\ sLast.refresh_if_stale /\ HadRow
    /\ sLast.at - RowBefore.generated_at > ttl_hours

\* C8: get_snapshot with refresh_if_stale on a row older than the TTL never
\* returns that row: it calls refresh_snapshot, which replaces the row or
\* raises, whatever the source's maximum date is and whether or not a plan and
\* metadata are passed.
C8_OlderThanTtlRefreshed ==
    OlderThanTtl =>
        /\ sLast.outcome \in {"refreshed", "raised"}
        /\ sLast.outcome = "refreshed" =>
              /\ sLast.returned.refreshed
              /\ RowAfter.snapshot_version = RowBefore.snapshot_version + 1
              /\ RowAfter.generated_at = sLast.at

\* a row 25 hours old, read with a plan and metadata while the source has
\* not moved, was refreshed
C8_Witness ==
    /\ OlderThanTtl
    /\ sLast.at - RowBefore.generated_at = 25
    /\ sLast.shape.plan /\ sLast.shape.metadata
    /\ RowBefore.source_max_date = source_max
    /\ sLast.outcome = "refreshed"

\* at the last call the row was within the TTL and, for a caller without
\* plan and metadata, carried the source's maximum date
FreshAtCall ==
    /\ sLast.at - RowBefore.generated_at <= ttl_hours
    /\ \/ sLast.shape.metadata /\ sLast.shape.plan
       \/ RowBefore.source_max_date = sLast.src

C30_FailedRefreshKeepsStore ==
    /\ sLast.outcome = "raised" => snapshots = sLast.before
    /\ sLast.outcome = "refreshed" =>
          snapshots[SnapshotKey(sLast.shape)].snapshot_version =
              IF HadRow THEN RowBefore.snapshot_version + 1 ELSE 1

\* three refreshes of one key drew a run_id each, one of the first two failed
\* in its upsert, and the third wrote version 2 over version 1
C30_Witness ==
    /\ sCalls = 3 /\ uuids = 3
    /\ sLast.op = "refresh" /\ sLast.outcome = "refreshed"
    /\ HadRow /\ RowBefore.snapshot_version = 1
    /\ DOMAIN snapshots = {SnapshotKey(sLast.shape)}
    /\ snapshots[SnapshotKey(sLast.shape)].snapshot_version = 2

(***************************************************************************)
(* Concurrent refresh_snapshot calls on one key.  Each caller computes its *)
(* payload, runs the upsert inside its own transaction and commits         *)
(* (db_cursor(write=True)).  The database makes the second writer of a row *)
(* wait until the first writer's transaction has ended, and then applies   *)
(* DO UPDATE to the row as committed.                                      *)
(***************************************************************************)
NumRefreshers == 2

Refreshers == 1..NumRefreshers

DefaultShape == [dataset_id |-> "", plan |-> FALSE, metadata |-> FALSE]

NoRow ==
    [snapshot_json |-> [computed_from |-> 0], source_max_date |-> 0, snapshot_version |-> 0,
     run_id |-> 0, generated_at |-> 0]

NotStarted ==
    [pc |-> "start", payload |-> [computed_from |-> 0], source_max_date |-> 0,
     run_id |-> 0, row |-> NoRow, snapshot_version |-> 0]

InitRefreshing ==
    /\ snapshots = EmptyStore
    /\ refreshers = [p \in Refreshers |-> NotStarted]
    /\ commits = <<>>
    /\ source_max = 0
    /\ uuids = 0
    /\ now = 0 /\ ticks = 0 /\ sCalls = 0 /\ sLast = NoSnapshotCall
    /\ ValidateOff /\ AllowOff /\ CacheOff /\ AnalyzeOff /\ FunctionsOff

\* what the concurrent calls leave alone
RefreshingIdle ==
    <<now, ticks, sCalls, sLast, validateVars, allowVars, cacheVars, analyzeVars, functionVars>>

\* a writer that never waits for another writer of the row
RowLockFree_no_wait(p) == TRUE

\* no other transaction holds an uncommitted write of the row
RowLockFree(p) == \A q \in Refreshers \ {p} : refreshers[q].pc # "upserted"

\* payload = _build_snapshot_payload(...): the queries on the source data
ComputePayload(p) ==
    /\ refreshers[p].pc = "start"
    /\ refreshers' =
          [refreshers EXCEPT ![p] =
              [@ EXCEPT !.pc = "payload",
                        !.payload = _build_snapshot_payload(DefaultShape, source_max)]]
    /\ UNCHANGED <<snapshots, commits, source_max, uuids, RefreshingIdle>>

\* _get_fact_max_date(): a query of its own, made after the payload is built,
\* then run_id = str(uuid4())
ReadSourceMaxDate(p) ==
    /\ refreshers[p].pc = "payload"
    /\ refreshers' =
          [refreshers EXCEPT ![p] =
              [@ EXCEPT !.pc = "computed",
                        !.source_max_date =
                            SourceMaxDate(DefaultShape, refreshers[p].payload, source_max),
                        !.run_id = uuids + 1]]
    /\ uuids' = uuids + 1
    /\ UNCHANGED <<snapshots, commits, source_max, RefreshingIdle>>

\* cur.execute(INSERT ... ON CONFLICT ... DO UPDATE ... RETURNING ...)
RunUpsert(p) ==
    /\ refreshers[p].pc = "computed"
    /\ RowLockFree(p)
    /\ refreshers' =
          [refreshers EXCEPT ![p] =
              [@ EXCEPT !.pc = "upserted",
                        !.row = UpsertSnapshot(snapshots, SnapshotKey(DefaultShape),
                                               refreshers[p].payload,
                                               refreshers[p].source_max_date,
                                               refreshers[p].run_id,
                                               now)[SnapshotKey(DefaultShape)]]]
    /\ UNCHANGED <<snapshots, commits, source_max, uuids, RefreshingIdle>>

\* conn.commit(), then the return of the dict
CommitRefresh(p) ==
    /\ refreshers[p].pc = "upserted"
    /\ snapshots' = [k \in DOMAIN snapshots \cup {SnapshotKey(DefaultShape)} |->
                        IF k = SnapshotKey(DefaultShape) THEN refreshers[p].row
                        ELSE snapshots[k]]
    /\ commits' = Append(commits, p)
    /\ refreshers' =
          [refreshers EXCEPT ![p] =
              [@ EXCEPT !.pc = "committed",
                        !.snapshot_version = refreshers[p].row.snapshot_version]]
    /\ UNCHANGED <<source_max, uuids, RefreshingIdle>>

\* the transaction fails: conn.rollback(), the exception goes to the caller
RollbackRefresh(p) ==
    /\ refreshers[p].pc = "upserted"
    /\ refreshers' = [refreshers EXCEPT ![p] = [@ EXCEPT !.pc = "failed"]]
    /\ UNCHANGED <<snapshots, commits, source_max, uuids, RefreshingIdle>>

NextRefreshing ==
    \/ \E p \in Refreshers : ComputePayload(p)
    \/ \E p \in Refreshers : ReadSourceMaxDate(p)
    \/ \E p \in Refreshers : RunUpsert(p)
    \/ \E p \in Refreshers : CommitRefresh(p)
    \/ \E p \in Refreshers : RollbackRefresh(p)
    \/ AdvanceSource

SpecRefreshing == InitRefreshing /\ [][NextRefreshing]_vars

RefreshKey == SnapshotKey(DefaultShape)

Committed == {p \in Refreshers : refreshers[p].pc = "committed"}

AllEnded == \A p \in Refreshers : refreshers[p].pc \in {"committed", "failed"}

\* C7: at every moment of every interleaving the stored row holds the payload,
\* source_max_date and run_id of one single refresh and its version equals the
\* number of refreshes committed so far; no two calls return the same version;
\* once all calls have ended the row is the one of the refresh that committed
\* last.
C7_ConcurrentRefresh ==
    /\ commits = <<>> => RefreshKey \notin DOMAIN snapshots
    /\ commits # <<>> =>
          /\ RefreshKey \in DOMAIN snapshots
          /\ snapshots[RefreshKey].snapshot_version = Len(commits)
          /\ \E p \in Committed :
                /\ snapshots[RefreshKey].run_id = refreshers[p].run_id
                /\ snapshots[RefreshKey].snapshot_json = refreshers[p].payload
                /\ snapshots[RefreshKey].source_max_date = refreshers[p].source_max_date
          /\ AllEnded => snapshots[RefreshKey].run_id = refreshers[commits[Len(commits)]].run_id
    /\ \A p, q \in Committed :
          p # q => refreshers[p].snapshot_version # refreshers[q].snapshot_version

\* two refreshes with different payloads both committed, the one that drew
\* its run_id first committing last
C7_Witness ==
    /\ AllEnded
    /\ commits = <<2, 1>>
    /\ refreshers[1].run_id < refreshers[2].run_id
    /\ refreshers[1].payload # refreshers[2].payload
    /\ snapshots[RefreshKey].snapshot_json = refreshers[1].payload
    /\ snapshots[RefreshKey].snapshot_version = 2

\* C28: on the default path the source_max_date stored with a snapshot is the
\* maximum date of the source data its payload was computed from, also when
\* the source advances during the refresh; hence a stored row that _is_stale
\* reports fresh holds a payload computed from data whose maximum date is the
\* current source maximum.
C28_SourceDateOfPayload ==
    RefreshKey \in DOMAIN snapshots =>
        /\ snapshots[RefreshKey].source_max_date =
               snapshots[RefreshKey].snapshot_json.computed_from
        /\ ~_is_stale(SnapshotDict(snapshots[RefreshKey], FALSE), DefaultShape,
                      now, source_max) =>
               snapshots[RefreshKey].snapshot_json.computed_from = source_max

(***************************************************************************)
(* Date buckets: adapters/sql_renderer.py.  Engines, grains, column        *)
(* expressions and fragments are sequences of characters; the empty        *)
(* sequence stands for None and for "".                                    *)
(***************************************************************************)
PostgresText == <<"p", "o", "s", "t", "g", "r", "e", "s">>

PostgresqlText == <<"p", "o", "s", "t", "g", "r", "e", "s", "q", "l">>

SqliteText == <<"s", "q", "l", "i", "t", "e">>

MysqlText == <<"m", "y", "s", "q", "l">>

DayText == <<"d", "a", "y">>

WeekText == <<"w", "e", "e", "k">>

MonthText == <<"m", "o", "n", "t", "h">>

QuarterText == <<"q", "u", "a", "r", "t", "e", "r">>

YearText == <<"y", "e", "a", "r">>

\* supported = {"day", "week", "month", "quarter", "year"}
SupportedGrains == {DayText, WeekText, MonthText, QuarterText, YearText}

\* SQLDialect.render_date_bucket(column_expr, time_grain), engine standing for self.engine
render_date_bucket(engine, column_expr, time_grain) ==
    LET grain == Lower(IF time_grain = <<>> THEN MonthText ELSE time_grain)
    IN  IF engine \in {PostgresText, PostgresqlText}
        THEN <<"d", "a", "t", "e", "_", "t", "r", "u", "n", "c", "(", "'">> \o (IF grain \in SupportedGrains THEN grain ELSE MonthText)
                \o <<"'", ",", " ">> \o column_expr \o <<")", ":", ":", "d", "a", "t", "e">>
        ELSE IF engine = SqliteText
        THEN IF grain = YearText
             THEN <<"d", "a", "t", "e", "(", "s", "t", "r", "f", "t", "i", "m", "e", "(", "'", "%", "Y", "-", "0", "1", "-", "0", "1", "'", ",", " ">> \o column_expr \o <<")", ")">>
             ELSE IF grain = DayText
             THEN <<"d", "a", "t", "e", "(">> \o column_expr \o <<")">>
             ELSE <<"d", "a", "t", "e", "(", "s", "t", "r", "f", "t", "i", "m", "e", "(", "'", "%", "Y", "-", "%", "m", "-", "0", "1", "'", ",", " ">> \o column_expr \o <<")", ")">>
        ELSE IF engine = MysqlText
        THEN IF grain = YearText
             THEN <<"s", "t", "r", "_", "t", "o", "_", "d", "a", "t", "e", "(", "c", "o", "n", "c", "a", "t", "(", "y", "e", "a", "r", "(">> \o column_expr \o <<")", ",", " ", "'", "-", "0", "1", "-", "0", "1", "'", ")", ",", " ", "'", "%", "Y", "-", "%", "m", "-", "%", "d", "'", ")">>
             ELSE IF grain = DayText
             THEN <<"d", "a", "t", "e", "(">> \o column_expr \o <<")">>
             ELSE <<"s", "t", "r", "_", "t", "o", "_", "d", "a", "t", "e", "(", "d", "a", "t", "e", "_", "f", "o", "r", "m", "a", "t", "(">> \o column_expr \o <<",", " ", "'", "%", "Y", "-", "%", "m", "-", "0", "1", "'", ")", ",", " ", "'", "%", "Y", "-", "%", "m", "-", "%", "d", "'", ")">>
        ELSE column_expr

\* get_sql_dialect(db_engine).engine
get_sql_dialect(db_engine) ==
    LET engine == Lower(Strip(IF db_engine = <<>> THEN PostgresText ELSE db_engine))
    IN  IF engine \in {PostgresText, PostgresqlText} THEN PostgresText ELSE engine

\* the engines a dialect is made for, and one that has no rule
DialectEngines == {PostgresText, PostgresqlText, SqliteText, MysqlText, <<"o", "r", "a", "c", "l", "e">>}

\* the grains asked for: the five supported ones, one in capitals, None, and
\* one that no engine knows
RequestedGrains == SupportedGrains \cup {<<"Y", "E", "A", "R">>, <<>>, <<"h", "o", "u", "r">>}

ColumnExprs == {<<"f", ".", "\"", "o", "r", "d", "e", "r", "_", "d", "a", "t", "e", "\"">>, <<"t">>}

MaxRenders == 2

InitRender ==
    /\ dPc = "ready"
    /\ dEngine \in DialectEngines
    /\ dColumn \in ColumnExprs
    /\ dGrains \in [1..MaxRenders -> RequestedGrains]
    /\ dFragments = <<>>
    /\ ValidateOff /\ AllowOff /\ CacheOff /\ AnalyzeOff /\ SnapshotOff
    /\ ClassifyOff /\ BuilderOff /\ OthersOff

\* one call of dialect.render_date_bucket(column_expr, time_grain)
RenderDateBucket ==
    /\ dPc = "ready"
    /\ dFragments' = Append(dFragments,
                            render_date_bucket(dEngine, dColumn, dGrains[Len(dFragments) + 1]))
    /\ dPc' = IF Len(dFragments) + 1 = Len(dGrains) THEN "done" ELSE "ready"
    /\ UNCHANGED <<dEngine, dColumn, dGrains, validateVars, allowVars, cacheVars, analyzeVars,
                   snapshotVars, classifyVars, builderVars, otherVars>>

NextRender == RenderDateBucket

SpecRender == InitRender /\ [][NextRender]_vars

\* C18: on postgres, mysql and sqlite two different supported grains never
\* give the same fragment for one column; on a Postgres-class engine a grain
\* that is not recognized gives the fragment of month; equal grains give equal
\* fragments.
C18_GrainsRenderedApart ==
    \A i \in DOMAIN dFragments, j \in DOMAIN dFragments :
        /\ (dEngine \in {PostgresText, SqliteText, MysqlText}
              /\ dGrains[i] \in SupportedGrains /\ dGrains[j] \in SupportedGrains
              /\ dGrains[i] # dGrains[j])
           => dFragments[i] # dFragments[j]
        /\ (dEngine \in {PostgresText, PostgresqlText}
              /\ Lower(dGrains[i]) \notin SupportedGrains /\ dGrains[j] = MonthText)
           => dFragments[i] = dFragments[j]
        /\ dGrains[i] = dGrains[j] => dFragments[i] = dFragments[j]

(***************************************************************************)
(* Feature builder: mining/feature_builder.py.  Table and column names are *)
(* sequences of characters; a candidate is a record of the semantic map    *)
(* and None is the record with found = FALSE.                              *)
(***************************************************************************)
\* f'"{str(name).replace(chr(34), "")}"'
_safe_ident(name) ==
    <<"\"">> \o SelectSeq(name, LAMBDA c : c # "\"") \o <<"\"">>

NoCandidate == [found |-> FALSE, table |-> <<>>, column |-> <<>>]

Candidate(item) == [found |-> TRUE, table |-> item.table, column |-> item.column]

\* the positions of the items whose lower-cased column is kw (exactly) or contains kw
MatchingItems(items, kw, exactly) ==
    {i \in DOMAIN items :
        IF exactly THEN Lower(items[i].column) = kw
        ELSE Contains(Lower(items[i].column), kw)}

\* [i for i in items if ...][0]
FirstItem(items, positions) ==
    items[CHOOSE i \in positions : \A j \in positions : i <= j]

RECURSIVE FallbackCandidate(_, _)
\* for kw in fallback_keywords: ...; return items[0]
FallbackCandidate(items, fallback_keywords) ==
    IF fallback_keywords = <<>> THEN items[1]
    ELSE IF MatchingItems(items, Head(fallback_keywords), FALSE) # {}
    THEN FirstItem(items, MatchingItems(items, Head(fallback_keywords), FALSE))
    ELSE FallbackCandidate(items, Tail(fallback_keywords))

\* the search of _find_candidate in a non-empty list, lowered_kw already stripped and lowered
KeywordCandidate(items, lowered_kw, fallback_keywords) ==
    IF lowered_kw # <<>> /\ MatchingItems(items, lowered_kw, TRUE) # {}
    THEN FirstItem(items, MatchingItems(items, lowered_kw, TRUE))
    ELSE IF lowered_kw # <<>> /\ MatchingItems(items, lowered_kw, FALSE) # {}
    THEN FirstItem(items, MatchingItems(items, lowered_kw, FALSE))
    ELSE FallbackCandidate(items, fallback_keywords)

\* _find_candidate(items, keyword, fallback_keywords)
_find_candidate(items, keyword, fallback_keywords) ==
    IF items = <<>> THEN NoCandidate
    ELSE Candidate(KeywordCandidate(items, Lower(Strip(keyword)), fallback_keywords))

NoRelationship == [found |-> FALSE, left_col |-> <<>>, right_col |-> <<>>]

\* a _find_relationship that reads a relationship from left to right only
RECURSIVE _find_relationship_one_way(_, _, _)
_find_relationship_one_way(relationships, left_table, right_table) ==
    IF relationships = <<>> THEN NoRelationship
    ELSE IF Head(relationships).from_table = left_table
            /\ Head(relationships).to_table = right_table
    THEN [found |-> TRUE, left_col |-> Head(relationships).from_column,
          right_col |-> Head(relationships).to_column]
    ELSE _find_relationship_one_way(Tail(relationships), left_table, right_table)

RECURSIVE _find_relationship(_, _, _)
\* _find_relationship(relationships, left_table, right_table)
_find_relationship(relationships, left_table, right_table) ==
    IF relationships = <<>> THEN NoRelationship
    ELSE IF Head(relationships).from_table = left_table
            /\ Head(relationships).to_table = right_table
    THEN [found |-> TRUE, left_col |-> Head(relationships).from_column,
          right_col |-> Head(relationships).to_column]
    ELSE IF Head(relationships).from_table = right_table
            /\ Head(relationships).to_table = left_table
    THEN [found |-> TRUE, left_col |-> Head(relationships).to_column,
          right_col |-> Head(relationships).from_column]
    ELSE _find_relationship(Tail(relationships), left_table, right_table)

\* _date_trunc_expr(db_engine, column, time_grain)
_date_trunc_expr(db_engine, column, time_grain) ==
    render_date_bucket(get_sql_dialect(db_engine), column,
                       IF time_grain = <<>> THEN MonthText ELSE time_grain)

MeasureKeywords ==
    <<<<"a", "m", "o", "u", "n", "t">>,
      <<"r", "e", "v", "e", "n", "u", "e">>,
      <<"t", "o", "t", "a", "l">>,
      <<"p", "r", "i", "c", "e">>,
      <<"v", "a", "l", "u", "e">>,
      <<"s", "c", "o", "r", "e">>,
      <<"s", "a", "l", "e", "s">>>>

TimeKeywords ==
    <<<<"d", "a", "t", "e">>,
      <<"t", "i", "m", "e">>,
      <<"c", "r", "e", "a", "t", "e", "d">>,
      <<"u", "p", "d", "a", "t", "e", "d">>,
      <<"t", "i", "m", "e", "s", "t", "a", "m", "p">>>>

TrendEntityKeywords ==
    <<<<"c", "o", "u", "n", "t", "r", "y">>,
      <<"c", "u", "s", "t", "o", "m", "e", "r">>,
      <<"p", "r", "o", "d", "u", "c", "t">>,
      <<"c", "a", "t", "e", "g", "o", "r", "y">>,
      <<"s", "e", "g", "m", "e", "n", "t">>,
      <<"r", "e", "g", "i", "o", "n">>,
      <<"n", "a", "m", "e">>>>

SegmentEntityKeywords ==
    <<<<"c", "u", "s", "t", "o", "m", "e", "r">>,
      <<"a", "c", "c", "o", "u", "n", "t">>,
      <<"u", "s", "e", "r">>,
      <<"s", "t", "u", "d", "e", "n", "t">>,
      <<"c", "o", "u", "n", "t", "r", "y">>,
      <<"p", "r", "o", "d", "u", "c", "t">>,
      <<"n", "a", "m", "e">>,
      <<"i", "d">>>>

NoSql == [shape |-> "none"]

NoJoin == [table |-> <<>>, left |-> <<>>, right |-> <<>>]

NoEntityKey == [alias |-> "none", ident |-> <<>>]

\* FeatureBuildResult(status="insufficient_data", reason=..., sql=None, rows=[])
InsufficientData(reason) == [status |-> "insufficient_data", reason |-> reason, sql |-> NoSql]

\* FeatureBuildResult(status="ok", reason=None, sql=sql, rows=[])
BuiltSql(statement) == [status |-> "ok", reason |-> "None", sql |-> statement]

\* the entity on the measure's own table: f.<column>, no join
LocalEntity(entity) ==
    [entity_key |-> [alias |-> "f", ident |-> _safe_ident(entity.column)], join |-> NoJoin]

\* the entity on another table: e.<column>, JOIN <table> e ON f.<left> = e.<right>
JoinedEntity(entity, rel) ==
    [entity_key |-> [alias |-> "e", ident |-> _safe_ident(entity.column)],
     join |-> [table |-> _safe_ident(entity.table), left |-> _safe_ident(rel.left_col),
               right |-> _safe_ident(rel.right_col)]]

\* the statements of _build_trend_sql, by the values put into the template:
\* WITH base AS (...), top_entities AS (... ORDER BY SUM(metric_value) DESC LIMIT n) ...
TopEntitiesSql(plan, db_engine, m, t, selected) ==
    [shape |-> "top_entities",
     period_expr |-> _date_trunc_expr(db_engine, <<"f", ".">> \o _safe_ident(t.column),
                                      plan.time_grain),
     time_ident |-> _safe_ident(t.column),
     entity_key |-> selected.entity_key,
     value_ident |-> _safe_ident(m.column),
     from_table |-> _safe_ident(m.table),
     join |-> selected.join,
     limit |-> IF plan.n = 0 THEN 5 ELSE plan.n]

\* SELECT <period> AS period_start, ROUND(SUM(f.<measure>), 4) ... GROUP BY 1 ORDER BY 1
PlainTrendSql(plan, db_engine, m, t) ==
    [shape |-> "plain",
     period_expr |-> _date_trunc_expr(db_engine, <<"f", ".">> \o _safe_ident(t.column),
                                      plan.time_grain),
     time_ident |-> _safe_ident(t.column),
     entity_key |-> NoEntityKey,
     value_ident |-> _safe_ident(m.column),
     from_table |-> _safe_ident(m.table),
     join |-> NoJoin,
     limit |-> 0]

\* if entity_select and plan.entity_scope == "top_n": ... else: ...
TrendStatement(plan, db_engine, m, t, selected) ==
    IF selected.entity_key # NoEntityKey /\ plan.entity_scope = "top_n"
    THEN BuiltSql(TopEntitiesSql(plan, db_engine, m, t, selected))
    ELSE BuiltSql(PlainTrendSql(plan, db_engine, m, t))

\* rel = _find_relationship(...); if not rel: return insufficient_data
TrendJoined(plan, db_engine, m, t, entity, rel) ==
    IF ~rel.found
    THEN InsufficientData("Top-N entity requested but relationship to measure table was not found.")
    ELSE TrendStatement(plan, db_engine, m, t, JoinedEntity(entity, rel))

\* if entity and str(entity["table"]) != m_table: ... elif entity: ... else: ...
TrendWithEntity(plan, metadata, db_engine, m, t, entity) ==
    IF entity.found /\ entity.table # m.table
    THEN TrendJoined(plan, db_engine, m, t, entity,
                     _find_relationship(metadata.relationships, m.table, entity.table))
    ELSE IF entity.found
    THEN TrendStatement(plan, db_engine, m, t, LocalEntity(entity))
    ELSE TrendStatement(plan, db_engine, m, t, [entity_key |-> NoEntityKey, join |-> NoJoin])

\* _build_trend_sql once measure and time_col are chosen
TrendChosen(plan, metadata, db_engine, m, t) ==
    IF ~m.found \/ ~t.found
    THEN InsufficientData("No suitable measure/time columns found in semantic map.")
    ELSE IF m.table # t.table
    THEN InsufficientData("Measure and time columns are on different tables; join inference for trend is not available yet.")
    ELSE TrendWithEntity(plan, metadata, db_engine, m, t,
                         IF plan.entity_scope = "top_n"
                         THEN _find_candidate(metadata.entities, plan.entity_dimension,
                                              TrendEntityKeywords)
                         ELSE NoCandidate)

\* _build_trend_sql(plan, metadata, db_engine)
_build_trend_sql(plan, metadata, db_engine) ==
    TrendChosen(plan, metadata, db_engine,
                _find_candidate(metadata.measures, plan.metric, MeasureKeywords),
                _find_candidate(metadata.time_columns, <<>>, TimeKeywords))

\* the statements of _build_segmentation_sql: the entity_rollup / ref query on
\* Postgres, the flat GROUP BY query elsewhere
SegmentationSql(db_engine, m, t, selected) ==
    [shape |-> IF db_engine \in {PostgresText, PostgresqlText} THEN "entity_rollup" ELSE "flat",
     period_expr |-> <<>>,
     time_ident |-> _safe_ident(t.column),
     entity_key |-> selected.entity_key,
     value_ident |-> _safe_ident(m.column),
     from_table |-> _safe_ident(m.table),
     join |-> selected.join,
     limit |-> 0]

\* rel = _find_relationship(...); if not rel: return insufficient_data
SegmentationJoined(db_engine, m, t, entity, rel) ==
    IF ~rel.found
    THEN InsufficientData("Entity relationship to measure table was not found for segmentation.")
    ELSE BuiltSql(SegmentationSql(db_engine, m, t, JoinedEntity(entity, rel)))

\* _build_segmentation_sql once measure, time_col and entity are chosen
SegmentationChosen(metadata, db_engine, m, t, entity) ==
    IF ~m.found \/ ~t.found \/ ~entity.found
    THEN InsufficientData("No suitable entity/measure/time columns found in semantic map.")
    ELSE IF m.table # t.table
    THEN InsufficientData("Measure and time columns are on different tables; segmentation join inference unavailable.")
    ELSE IF entity.table # m.table
    THEN SegmentationJoined(db_engine, m, t, entity,
                            _find_relationship(metadata.relationships, m.table, entity.table))
    ELSE BuiltSql(SegmentationSql(db_engine, m, t, LocalEntity(entity)))

\* _build_segmentation_sql(plan, metadata, db_engine)
_build_segmentation_sql(plan, metadata, db_engine) ==
    SegmentationChosen(metadata, db_engine,
                       _find_candidate(metadata.measures, plan.metric, MeasureKeywords),
                       _find_candidate(metadata.time_columns, <<>>, TimeKeywords),
                       _find_candidate(metadata.entities, plan.entity_dimension,
                                       SegmentEntityKeywords))

\* spec = _build_trend_sql(...) / _build_segmentation_sql(...), or the early return
FeatureSpec(schema_metadata, plan, db_engine) ==
    IF plan.task_type = "trend_analysis"
    THEN _build_trend_sql(plan, schema_metadata, db_engine)
    ELSE IF plan.task_type = "segmentation"
    THEN _build_segmentation_sql(plan, schema_metadata, db_engine)
    ELSE [status |-> "unsupported_task",
          reason |-> "feature_builder does not support task_type", sql |-> NoSql]

\* not (spec.status != "ok" or not spec.sql)
RunsQuery(built) == built.status = "ok" /\ built.sql # NoSql

\* what feature_builder gives back for built, outcome what execute_safe_query does
FeatureReturn(built, outcome) ==
    IF ~RunsQuery(built)
    THEN [status |-> built.status, reason |-> built.reason, sql |-> built.sql,
          rows |-> <<>>, raised |-> FALSE]
    ELSE IF outcome = "raised"
    THEN [status |-> "raised", reason |-> "None", sql |-> built.sql,
          rows |-> <<>>, raised |-> TRUE]
    ELSE [status |-> "ok", reason |-> "None", sql |-> built.sql,
          rows |-> IF outcome = "rows" THEN <<"row">> ELSE <<>>, raised |-> FALSE]

\* feature_builder(schema_metadata, plan, db_engine)
feature_builder(schema_metadata, plan, db_engine, outcome) ==
    FeatureReturn(FeatureSpec(schema_metadata, plan, db_engine), outcome)

\* the semantic map's candidates
OrdersAmount == [table |-> <<"o", "r", "d", "e", "r", "s">>, column |-> <<"a", "m", "o", "u", "n", "t">>]

CustomersScore == [table |-> <<"c", "u", "s", "t", "o", "m", "e", "r", "s">>, column |-> <<"s", "c", "o", "r", "e">>]

OrdersOrderDate == [table |-> <<"o", "r", "d", "e", "r", "s">>, column |-> <<"o", "r", "d", "e", "r", "_", "d", "a", "t", "e">>]

CustomersSignupDate == [table |-> <<"c", "u", "s", "t", "o", "m", "e", "r", "s">>, column |-> <<"s", "i", "g", "n", "u", "p", "_", "d", "a", "t", "e">>]

CustomersCountry == [table |-> <<"c", "u", "s", "t", "o", "m", "e", "r", "s">>, column |-> <<"c", "o", "u", "n", "t", "r", "y">>]

OrdersRegion == [table |-> <<"o", "r", "d", "e", "r", "s">>, column |-> <<"r", "e", "g", "i", "o", "n">>]

\* a column whose name is not an identifier
CustomersMyCol == [table |-> <<"c", "u", "s", "t", "o", "m", "e", "r", "s">>, column |-> <<"m", "y", " ", "c", "o", "l">>]

OrdersToCustomers ==
    [from_table |-> <<"o", "r", "d", "e", "r", "s">>, from_column |-> <<"c", "u", "s", "t", "o", "m", "e", "r", "_", "i", "d">>,
     to_table |-> <<"c", "u", "s", "t", "o", "m", "e", "r", "s">>, to_column |-> <<"i", "d">>]

CustomersToOrders ==
    [from_table |-> <<"c", "u", "s", "t", "o", "m", "e", "r", "s">>, from_column |-> <<"i", "d">>,
     to_table |-> <<"o", "r", "d", "e", "r", "s">>, to_column |-> <<"c", "u", "s", "t", "o", "m", "e", "r", "_", "i", "d">>]

OrdersToProducts ==
    [from_table |-> <<"o", "r", "d", "e", "r", "s">>, from_column |-> <<"p", "r", "o", "d", "u", "c", "t", "_", "i", "d">>,
     to_table |-> <<"p", "r", "o", "d", "u", "c", "t", "s">>, to_column |-> <<"i", "d">>]

SchemaMetadatas ==
    [entities : {<<>>, <<CustomersCountry>>, <<OrdersRegion>>, <<CustomersMyCol>>,
                 <<OrdersRegion, CustomersCountry>>, <<CustomersMyCol, CustomersCountry>>},
     measures : {<<>>, <<OrdersAmount>>, <<CustomersScore>>, <<CustomersScore, OrdersAmount>>},
     time_columns : {<<>>, <<OrdersOrderDate>>, <<CustomersSignupDate>>},
     relationships : {<<>>, <<OrdersToCustomers>>, <<CustomersToOrders>>, <<OrdersToProducts>>,
                      <<OrdersToProducts, CustomersToOrders>>}]

Plans ==
    [task_type : {"trend_analysis", "segmentation", "sql_retrieval"},
     entity_scope : {"top_n", "all"},
     entity_dimension : {<<>>, <<"c", "o", "u", "n", "t", "r", "y">>},
     n : {0, 3},
     metric : {<<>>},
     time_grain : {YearText}]

InitBuilder ==
    /\ fPc = "ready"
    /\ fMetadata \in SchemaMetadatas
    /\ fPlan \in Plans
    /\ fEngine \in {PostgresText, SqliteText}
    /\ fExecuted = <<>>
    /\ fResult = [status |-> "none"]
    /\ ValidateOff /\ AllowOff /\ CacheOff /\ AnalyzeOff /\ SnapshotOff
    /\ ClassifyOff /\ RenderOff /\ OthersOff

\* one call of feature_builder, outcome what execute_safe_query does when it is reached
FeatureBuilder ==
    /\ fPc = "ready"
    /\ \E outcome \in {"rows", "empty", "raised"} :
          /\ fResult' = feature_builder(fMetadata, fPlan, fEngine, outcome)
          /\ fExecuted' = IF RunsQuery(FeatureSpec(fMetadata, fPlan, fEngine))
                          THEN <<FeatureSpec(fMetadata, fPlan, fEngine).sql>> ELSE <<>>
    /\ fPc' = "done"
    /\ UNCHANGED <<fMetadata, fPlan, fEngine, validateVars, allowVars, cacheVars, analyzeVars,
                   snapshotVars, classifyVars, renderVars, otherVars>>

NextBuilder == FeatureBuilder

SpecBuilder == InitBuilder /\ [][NextBuilder]_vars

\* re.fullmatch(r"[A-Za-z_][A-Za-z0-9_]*", name)
IsIdentifier(name) ==
    /\ name # <<>>
    /\ IsIdentStart(name[1])
    /\ \A i \in 2..Len(name) : IsIdentChar(name[i])

\* name between double quotes
Quote(name) == <<"\"">> \o name \o <<"\"">>

\* a quoted identifier
QuotedIdentifier(id) ==
    /\ Len(id) >= 3
    /\ id[1] = "\"" /\ id[Len(id)] = "\""
    /\ IsIdentifier(SubSeq(id, 2, Len(id) - 1))

\* the table and column identifiers a statement holds
PlacedIdentifiers(statement) ==
    {statement.time_ident, statement.value_ident, statement.from_table}
    \cup (IF statement.entity_key = NoEntityKey THEN {} ELSE {statement.entity_key.ident})
    \cup (IF statement.join = NoJoin THEN {}
          ELSE {statement.join.table, statement.join.left, statement.join.right})

\* C15: every table and column identifier of a statement that feature_builder
\* produced or executed is quoted and matches [A-Za-z_][A-Za-z0-9_]*, so a
\* candidate or relationship whose name fails that check never reaches SQL.
C15_IdentifiersChecked ==
    fPc = "done" =>
        /\ fResult.sql # NoSql =>
              \A id \in PlacedIdentifiers(fResult.sql) : QuotedIdentifier(id)
        /\ \A k \in DOMAIN fExecuted :
              \A id \in PlacedIdentifiers(fExecuted[k]) : QuotedIdentifier(id)

\* C16: for a trend plan with entity_scope = top_n, whatever the schema
\* metadata, the call ends either with the two-stage top_entities query
\* limited to n (5 when the plan gives no n), or with insufficient_data and a
\* reason.
C16_TopNRestricted ==
    (fPc = "done" /\ fPlan.task_type = "trend_analysis" /\ fPlan.entity_scope = "top_n") =>
        \/ /\ fResult.status = "insufficient_data"
           /\ fResult.reason \notin {"", "None"}
        \/ /\ fResult.status \in {"ok", "raised"}
           /\ fResult.sql.shape = "top_entities"
           /\ fResult.sql.limit = (IF fPlan.n = 0 THEN 5 ELSE fPlan.n)

\* the candidates the call chooses
ChosenMeasure == _find_candidate(fMetadata.measures, fPlan.metric, MeasureKeywords)

ChosenTime == _find_candidate(fMetadata.time_columns, <<>>, TimeKeywords)

ChosenEntity ==
    _find_candidate(fMetadata.entities, fPlan.entity_dimension,
                    IF fPlan.task_type = "segmentation"
                    THEN SegmentEntityKeywords ELSE TrendEntityKeywords)

\* the relationship rows that connect the measure's table and the entity's
\* table, in either direction
Connecting ==
    {i \in DOMAIN fMetadata.relationships :
        LET rel == fMetadata.relationships[i]
        IN  \/ rel.from_table = ChosenMeasure.table /\ rel.to_table = ChosenEntity.table
            \/ rel.from_table = ChosenEntity.table /\ rel.to_table = ChosenMeasure.table}

\* the join of the statement uses the two columns of row i, each on its side
JoinUses(i) ==
    LET rel == fMetadata.relationships[i]
    IN  IF rel.from_table = ChosenMeasure.table
        THEN /\ fResult.sql.join.left = Quote(rel.from_column)
             /\ fResult.sql.join.right = Quote(rel.to_column)
        ELSE /\ fResult.sql.join.left = Quote(rel.to_column)
             /\ fResult.sql.join.right = Quote(rel.from_column)

\* insufficient_data with a reason, no SQL, no query executed
Refused ==
    /\ fResult.status = "insufficient_data"
    /\ fResult.reason \notin {"", "None"}
    /\ fResult.sql = NoSql
    /\ fResult.rows = <<>>
    /\ fExecuted = <<>>

\* C17: in a trend or segmentation build, a measure and a time column on
\* different tables end in insufficient_data with a reason, no SQL and no
\* query; so does an entity (top_n trend, segmentation) on another table than
\* the measure when no relationship row connects the two tables in either
\* direction; when a row connects them the statement joins the entity's table
\* on that row's two columns, each on its own side.
C17_JoinOrRefuse ==
    (fPc = "done" /\ fPlan.task_type \in {"trend_analysis", "segmentation"}
        /\ ChosenMeasure.found /\ ChosenTime.found) =>
        /\ ChosenMeasure.table # ChosenTime.table => Refused
        /\ (/\ ChosenMeasure.table = ChosenTime.table
            /\ fPlan.task_type = "segmentation" \/ fPlan.entity_scope = "top_n"
            /\ ChosenEntity.found
            /\ ChosenEntity.table # ChosenMeasure.table)
           => IF Connecting = {} THEN Refused
              ELSE /\ fResult.status \in {"ok", "raised"}
                   /\ fExecuted = <<fResult.sql>>
                   /\ fResult.sql.join.table = Quote(ChosenEntity.table)
                   /\ \E i \in Connecting : JoinUses(i)

\* the entity's table joined through a row written from the entity's table to
\* the measure's table
C17_Witness ==
    /\ fPc = "done"
    /\ fPlan.task_type = "trend_analysis" /\ fPlan.entity_scope = "top_n"
    /\ fMetadata.relationships = <<OrdersToProducts, CustomersToOrders>>
    /\ ChosenMeasure = Candidate(OrdersAmount)
    /\ ChosenEntity = Candidate(CustomersCountry)
    /\ fResult.status = "ok"
    /\ fResult.sql.join.left = Quote(CustomersToOrders.to_column)
    /\ fResult.sql.join.right = Quote(CustomersToOrders.from_column)

(***************************************************************************)
(* One call of execute_safe_query: agent/executor.py and the adapters      *)
(***************************************************************************)
\* (db_engine or os.getenv("DB_ENGINE", "postgres")).strip().lower()
SelectedEngine(db_engine, env) ==
    Lower(Strip(IF db_engine # <<>> THEN db_engine ELSE env))

\* get_adapter: the engine of the adapter it builds, <<>> when it raises AdapterError
get_adapter(db_engine, env) ==
    IF SelectedEngine(db_engine, env) \in {PostgresText, PostgresqlText} THEN PostgresText
    ELSE IF SelectedEngine(db_engine, env) = SqliteText THEN SqliteText
    ELSE IF SelectedEngine(db_engine, env) = MysqlText THEN MysqlText
    ELSE <<>>

\* the statement that sets the engine's timeout on the connection
TimeoutStatement(engine, timeout_ms) ==
    [kind |-> IF engine = SqliteText THEN "PRAGMA busy_timeout"
              ELSE IF engine = MysqlText THEN "SET SESSION MAX_EXECUTION_TIME"
              ELSE "SET statement_timeout",
     ms |-> timeout_ms, text |-> <<>>, params |-> <<>>]

SelectFromText == <<"S", "E", "L", "E", "C", "T", " ", "*", " ", "F", "R", "O", "M", " ", "(">>

GuardedQueryLimitText == <<")", " ", "A", "S", " ", "g", "u", "a", "r", "d", "e", "d", "_", "q", "u", "e", "r", "y", " ", "L", "I", "M", "I", "T", " ">>

\* the driver's parameter mark: ? for sqlite3, %s for the others
Placeholder(engine) == IF engine = SqliteText THEN <<"?">> ELSE <<"%", "s">>

\* a wrapping that hands the statement over as it came
wrapped_sql_unguarded(engine, sql) == sql

\* f"SELECT * FROM ({sql}) AS guarded_query LIMIT %s"
wrapped_sql(engine, sql) ==
    SelectFromText \o sql \o GuardedQueryLimitText \o Placeholder(engine)

\* cur.execute(wrapped_sql, (row_limit,))
WrappedStatement(engine, sql, row_limit) ==
    [kind |-> "query", ms |-> 0, text |-> wrapped_sql(engine, sql), params |-> <<row_limit>>]

Raises(type, message) == [kind |-> "raised", type |-> type, message |-> message]

ReturnsRows == [kind |-> "rows", type |-> "", message |-> ""]

ExecuteSqls ==
    { <<>>,
      <<"s", "e", "l", "e", "c", "t", " ", "1">>,
      <<" ", "s", "e", "l", "e", "c", "t", " ", "1", " ", ";">>,
      <<"s", "e", "l", "e", "c", "t", " ", "1", ";", " ", "d", "r", "o", "p", " ", "t">>,
      <<"d", "r", "o", "p", " ", "t">> }

RowLimits == {-1, 0, 3}

TimeoutsMs == {0, 250}

EngineArguments ==
    { <<>>, <<" ">>, PostgresText, <<"P", "o", "s", "t", "g", "r", "e", "S", "Q", "L">>,
      <<" ", "S", "Q", "L", "i", "t", "e">>, MysqlText, <<"o", "r", "a", "c", "l", "e">> }

ExecuteCalls ==
    [sql : ExecuteSqls, row_limit : RowLimits, timeout_ms : TimeoutsMs,
     db_engine : EngineArguments, source_config : BOOLEAN,
     DB_ENGINE : {PostgresText, MysqlText}]

InitExecute ==
    /\ xPc = "start"
    /\ xCall \in ExecuteCalls
    /\ xSafeSql = <<>> /\ xAdapter = <<>>
    /\ xConn = "none" /\ xExecuted = <<>> /\ xTrace = <<>> /\ xReturn = NotReturned
    /\ ValidateOff /\ AllowOff /\ CacheOff /\ AnalyzeOff /\ SnapshotOff
    /\ ClassifyOff /\ RenderOff /\ BuilderOff /\ FileOff

ExecuteFrame ==
    UNCHANGED <<xCall, validateVars, allowVars, cacheVars, analyzeVars, snapshotVars,
                classifyVars, renderVars, builderVars, fileVars>>

\* lines 110-113: the two range checks
CheckLimits ==
    /\ xPc = "start"
    /\ xTrace' = Append(xTrace, "limits")
    /\ IF xCall.row_limit <= 0
       THEN xPc' = "done" /\ xReturn' = Raises("ValueError", "row_limit must be positive")
       ELSE IF xCall.timeout_ms <= 0
       THEN xPc' = "done" /\ xReturn' = Raises("ValueError", "timeout_ms must be positive")
       ELSE xPc' = "limits_ok" /\ xReturn' = xReturn
    /\ UNCHANGED <<xSafeSql, xAdapter, xConn, xExecuted>>
    /\ ExecuteFrame

\* line 115: safe_sql = validate_sql(sql)
ValidateSql ==
    /\ xPc = "limits_ok"
    /\ xTrace' = Append(xTrace, "validate_sql")
    /\ IF validate_sql(xCall.sql).ok
       THEN xPc' = "validated" /\ xSafeSql' = validate_sql(xCall.sql).value
            /\ xReturn' = xReturn
       ELSE xPc' = "done" /\ xSafeSql' = xSafeSql
            /\ xReturn' = Raises("UnsafeSQLError", validate_sql(xCall.sql).error)
    /\ UNCHANGED <<xAdapter, xConn, xExecuted>>
    /\ ExecuteFrame

\* the engine whose code runs the query: the session of executor.py for postgres
\* without source_config, the adapter of get_adapter otherwise
ChosenAdapter(call) ==
    IF SelectedEngine(call.db_engine, call.DB_ENGINE) \in {PostgresText, PostgresqlText}
       /\ ~call.source_config
    THEN PostgresText
    ELSE get_adapter(SelectedEngine(call.db_engine, call.DB_ENGINE), call.DB_ENGINE)

\* lines 116-120: the choice of the engine
GetAdapter ==
    /\ xPc = "validated"
    /\ xTrace' = Append(xTrace, "engine")
    /\ xAdapter' = ChosenAdapter(xCall)
    /\ IF ChosenAdapter(xCall) = <<>>
       THEN xPc' = "done" /\ xReturn' = Raises("AdapterError", "Unsupported db_engine")
       ELSE xPc' = "adapter" /\ xReturn' = xReturn
    /\ UNCHANGED <<xSafeSql, xConn, xExecuted>>
    /\ ExecuteFrame

\* db_session() / adapter._connect(): the connection opens, or the call raises
Connect ==
    /\ xPc = "adapter"
    /\ xTrace' = Append(xTrace, "connect")
    /\ \E opened \in BOOLEAN :
        IF opened
        THEN xPc' = "session" /\ xConn' = "open" /\ xReturn' = xReturn
        ELSE xPc' = "done" /\ xConn' = xConn
             /\ xReturn' = Raises("OperationalError", "connection failed")
    /\ UNCHANGED <<xSafeSql, xAdapter, xExecuted>>
    /\ ExecuteFrame

\* the first cur.execute / conn.execute: the engine's timeout
SetTimeout ==
    /\ xPc = "session"
    /\ xTrace' = Append(xTrace, "timeout")
    /\ xExecuted' = Append(xExecuted, TimeoutStatement(xAdapter, xCall.timeout_ms))
    /\ \E accepted \in BOOLEAN :
        IF accepted
        THEN xPc' = "timeout_set" /\ xReturn' = xReturn
        ELSE xPc' = "closing" /\ xReturn' = Raises("DatabaseError", "timeout not set")
    /\ UNCHANGED <<xSafeSql, xAdapter, xConn>>
    /\ ExecuteFrame

\* the second cur.execute and fetchall: the wrapped query
ExecuteWrapped ==
    /\ xPc = "timeout_set"
    /\ xTrace' = Append(xTrace, "query")
    /\ xExecuted' = Append(xExecuted, WrappedStatement(xAdapter, xSafeSql, xCall.row_limit))
    /\ \E answered \in BOOLEAN :
        xReturn' = IF answered THEN ReturnsRows ELSE Raises("DatabaseError", "query failed")
    /\ xPc' = "closing"
    /\ UNCHANGED <<xSafeSql, xAdapter, xConn>>
    /\ ExecuteFrame

\* finally: conn.close()
CloseConnection ==
    /\ xPc = "closing"
    /\ xTrace' = Append(xTrace, "close")
    /\ xConn' = "closed"
    /\ xPc' = "done"
    /\ UNCHANGED <<xSafeSql, xAdapter, xExecuted, xReturn>>
    /\ ExecuteFrame

NextExecute ==
    \/ CheckLimits
    \/ ValidateSql
    \/ GetAdapter
    \/ Connect
    \/ SetTimeout
    \/ ExecuteWrapped
    \/ CloseConnection

SpecExecute == InitExecute /\ [][NextExecute]_vars

StepOrder == <<"limits", "validate_sql", "engine", "connect", "timeout", "query", "close">>

Rank(step) == CHOOSE i \in DOMAIN StepOrder : StepOrder[i] = step

\* C22: execute_safe_query rejects a non-positive row_limit or timeout_ms with
\* ValueError before anything else, then validates, then sets the engine's
\* timeout on the connection, then runs the validated SQL wrapped as
\* SELECT * FROM (<sql>) AS guarded_query LIMIT row_limit; SQL that validate_sql
\* rejects reaches no connection, and the connection is closed on every outcome.
C22_FixedOrder ==
    /\ \A i, j \in DOMAIN xTrace : i < j => Rank(xTrace[i]) < Rank(xTrace[j])
    /\ \A i \in DOMAIN xTrace :
        /\ xTrace[i] = "validate_sql" => i = 2 /\ xTrace[1] = "limits"
        /\ xTrace[i] = "connect" => i > 2 /\ xTrace[2] = "validate_sql"
        /\ xTrace[i] = "query" => xTrace[i - 1] = "timeout"
    /\ ((xCall.row_limit <= 0 \/ xCall.timeout_ms <= 0) /\ xPc \notin {"start", "off"}) =>
        /\ xPc = "done" /\ xReturn.kind = "raised" /\ xReturn.type = "ValueError"
        /\ xTrace = <<"limits">> /\ xConn = "none" /\ xExecuted = <<>>
    /\ (xPc # "off" /\ ~validate_sql(xCall.sql).ok) => (xConn = "none" /\ xExecuted = <<>>)
    /\ Len(xExecuted) <= 2
    /\ Len(xExecuted) >= 1 =>
        /\ xExecuted[1] = TimeoutStatement(xAdapter, xCall.timeout_ms)
        /\ xAdapter = get_adapter(SelectedEngine(xCall.db_engine, xCall.DB_ENGINE),
                                  xCall.DB_ENGINE)
    /\ Len(xExecuted) = 2 =>
        /\ xExecuted[2].text =
              SelectFromText \o validate_sql(xCall.sql).value
                  \o GuardedQueryLimitText \o Placeholder(xAdapter)
        /\ xExecuted[2].params = <<xCall.row_limit>>
    /\ xPc = "done" => xConn = (IF \E i \in DOMAIN xTrace : xTrace[i] = "connect"
                                    /\ xReturn.type # "OperationalError"
                                THEN "closed" ELSE "none")

\* a sqlite call with " select 1 ;" returned rows: the timeout, then the wrapped
\* statement without the semicolon, then the connection closed
C22_Witness ==
    /\ xPc = "done"
    /\ xReturn = ReturnsRows
    /\ xAdapter = SqliteText
    /\ xCall.sql # xSafeSql
    /\ Len(xExecuted) = 2
    /\ xConn = "closed"

(***************************************************************************)
(* Requests handled at once, each calling set_cached_sql on the file       *)
(* backend: metadata/store.py.  The handlers are plain functions, which    *)
(* the server runs on a pool of threads.                                   *)
(***************************************************************************)
NumWriters == 2

Writers == 1..NumWriters

\* the set_cached_sql calls of the requests
FileSetCalls ==
    [dataset_id : {"ds1"}, plan_key : PlanKeys, schema_hash : {"h1", "h2"},
     sql : {SqlA, SqlB}]

CallKey(call) == _compose_plan_cache_key(call.dataset_id, call.plan_key, call.schema_hash)

InitFile ==
    /\ wBefore \in InitialCaches
    /\ PLAN_SQL_CACHE_FILE = [truncated |-> FALSE, entries |-> wBefore]
    /\ writers \in [Writers -> [pc : {"start"}, call : FileSetCalls, cache : {EmptyCache}]]
    /\ ValidateOff /\ AllowOff /\ CacheOff /\ AnalyzeOff /\ SnapshotOff
    /\ ClassifyOff /\ RenderOff /\ BuilderOff /\ ExecuteOff

FileFrame ==
    UNCHANGED <<wBefore, validateVars, allowVars, cacheVars, analyzeVars, snapshotVars,
                classifyVars, renderVars, builderVars, executeVars>>

\* cache = _file_read_plan_sql_cache(): json.loads of the whole file, which
\* raises on a file another request has opened for writing and not yet written
ReadCacheFile(w) ==
    /\ writers[w].pc = "start"
    /\ writers' =
          [writers EXCEPT ![w] =
              IF PLAN_SQL_CACHE_FILE.truncated
              THEN [@ EXCEPT !.pc = "raised"]
              ELSE [@ EXCEPT !.pc = "read", !.cache = PLAN_SQL_CACHE_FILE.entries]]
    /\ UNCHANGED PLAN_SQL_CACHE_FILE
    /\ FileFrame

\* cache[key] = {...}, then write_text: json.dumps and open(path, "w"), which
\* empties the file
OpenCacheFile(w) ==
    /\ writers[w].pc = "read"
    /\ writers' =
          [writers EXCEPT ![w] =
              [@ EXCEPT !.pc = "opened",
                        !.cache = _file_set_cached_sql(writers[w].cache,
                                                       writers[w].call.dataset_id,
                                                       writers[w].call.plan_key,
                                                       writers[w].call.sql,
                                                       writers[w].call.schema_hash)]]
    /\ PLAN_SQL_CACHE_FILE' = [truncated |-> TRUE, entries |-> EmptyCache]
    /\ FileFrame

\* write_text: the whole local dict goes to the file, which is closed
WriteCacheFile(w) ==
    /\ writers[w].pc = "opened"
    /\ writers' = [writers EXCEPT ![w] = [@ EXCEPT !.pc = "done"]]
    /\ PLAN_SQL_CACHE_FILE' = [truncated |-> FALSE, entries |-> writers[w].cache]
    /\ FileFrame

NextFile ==
    \/ \E w \in Writers : ReadCacheFile(w)
    \/ \E w \in Writers : OpenCacheFile(w)
    \/ \E w \in Writers : WriteCacheFile(w)

SpecFile == InitFile /\ [][NextFile]_vars

AllWritersEnded == \A w \in Writers : writers[w].pc \in {"done", "raised"}

KeysSet == {CallKey(writers[w].call) : w \in Writers}

\* C29: in every interleaving of set_cached_sql calls on the file backend no
\* call fails on a half-written file and, once all calls have finished, every
\* key that was set is in the file with the SQL of one of the calls that set
\* it, and every other key has the entry it had before.
C29_NoEntryLost ==
    AllWritersEnded =>
        /\ \A w \in Writers : writers[w].pc = "done"
        /\ ~PLAN_SQL_CACHE_FILE.truncated
        /\ DOMAIN PLAN_SQL_CACHE_FILE.entries = DOMAIN wBefore \cup KeysSet
        /\ \A w \in Writers :
              /\ CallKey(writers[w].call) \in DOMAIN PLAN_SQL_CACHE_FILE.entries
              /\ \E v \in Writers :
                    /\ CallKey(writers[v].call) = CallKey(writers[w].call)
                    /\ PLAN_SQL_CACHE_FILE.entries[CallKey(writers[w].call)].sql =
                          writers[v].call.sql
        /\ \A k \in DOMAIN wBefore \ KeysSet :
              /\ k \in DOMAIN PLAN_SQL_CACHE_FILE.entries
              /\ PLAN_SQL_CACHE_FILE.entries[k] = wBefore[k]

(***************************************************************************)
(* One analyze request, both paths: api/routes.py, _run_analyze            *)
(***************************************************************************)
\* the plans build_plan may return, as far as the choice of the path reads them
AnalyzePlans ==
    { [intent |-> "country_revenue", entity_scope |-> "top_n", entity_dimension |-> "country"],
      [intent |-> "trend_analysis", entity_scope |-> "all", entity_dimension |-> ""],
      [intent |-> "customer_segmentation", entity_scope |-> "top_n",
       entity_dimension |-> "country"] }

\* get_snapshot(plan.intent, refresh_if_stale=True, dataset_id=..., plan=plan, ...)
RequestShape ==
    [dataset_id |-> rDatasetId, plan |-> TRUE,
     metadata |-> load_schema_metadata(rDatasetId).present, snapshot_type |-> rPlan.intent]

\* except TypeError: get_snapshot(plan.intent, refresh_if_stale=True)
FallbackShape ==
    [dataset_id |-> "", plan |-> FALSE, metadata |-> FALSE, snapshot_type |-> rPlan.intent]

\* a row that an earlier request left under the request's key, generated at hour at
StoredSnapshot(at) ==
    [k \in {SnapshotKey(RequestShape)} |->
        [snapshot_json |-> [computed_from |-> 0], source_max_date |-> 0,
         snapshot_version |-> 3, run_id |-> 7, generated_at |-> at]]

\* the snapshot store as the request finds it: empty, a fresh row, a row past the TTL
AnalyzeStores ==
    IF use_snapshot
    THEN {EmptyStore, StoredSnapshot(0), StoredSnapshot(0 - ttl_hours - 6)}
    ELSE {EmptyStore}

Init ==
    /\ rPc = "start"
    /\ max_repairs \in -1..MaxRepairs
    /\ rDatasetId \in DatasetIds
    /\ rPlan \in AnalyzePlans
    /\ backend \in {"file", "postgres"}
    /\ cache \in AnalyzeCaches(backend, rDatasetId)
    /\ rSql = <<>>
    /\ cache_hit = FALSE
    /\ repair_attempt = 0
    /\ retries_used = 0
    /\ evaluation = NoEvaluation
    /\ rows = <<>>
    /\ analysis_error = "None"
    /\ response = NoResponse
    /\ traces = EarlierTraces
    /\ history = NoHistory
    /\ cCalls = 0 /\ cPrev = NoCall /\ cLast = NoCall
    /\ snapshots \in AnalyzeStores
    /\ now = 0 /\ ticks = 0 /\ source_max = 0
    /\ uuids = 0 /\ sCalls = 0 /\ sLast = NoSnapshotCall
    /\ refreshers = <<>> /\ commits = <<>>
    /\ ValidateOff /\ AllowOff /\ FunctionsOff

\* how the call of get_snapshot goes and, after a TypeError, the call made again
SnapshotRuns ==
    {<<c>> : c \in Computings} \cup {<<"type_error", c>> : c \in {"ok", "payload_error"}}

SnapshotShape(run) == IF Len(run) = 2 THEN FallbackShape ELSE RequestShape

CallGetSnapshot(run) ==
    get_snapshot(snapshots, SnapshotShape(run), TRUE, run[Len(run)], source_max,
                 uuids + 1, now)

SnapshotMarker == <<"-", "-", " ", "m", "i", "n", "i", "n", "g", " ", "s", "n", "a", "p", "s", "h", "o", "t", " ", "r", "e", "t", "r", "i", "e", "v", "a", "l">>

\* the one row of the response, built from the dict that get_snapshot returned
SnapshotRow(snapshot) ==
    [generated_at |-> snapshot.generated_at, source_max_date |-> snapshot.source_max_date,
     snapshot_version |-> snapshot.snapshot_version, run_id |-> snapshot.run_id,
     refreshed |-> snapshot.refreshed, data |-> snapshot.snapshot_json]

\* a row that numbers the version anew
SnapshotLocals_renumbered(snapshot) ==
    [Locals EXCEPT !.sql = SnapshotMarker,
                   !.rows = <<[SnapshotRow(snapshot) EXCEPT !.snapshot_version = 1]>>,
                   !.evaluation = [status |-> "ok", reason |-> "None"]]

\* sql = "-- mining snapshot retrieval"; rows = [{...}]; evaluation = ok
SnapshotLocals(snapshot) ==
    [Locals EXCEPT !.sql = SnapshotMarker,
                   !.rows = <<SnapshotRow(snapshot)>>,
                   !.evaluation = [status |-> "ok", reason |-> "None"]]

\* the request when get_snapshot ended as res
SnapshotAnswered(res, appended) ==
    IF res.outcome = "raised"
    THEN /\ SetLocals(Locals)
         /\ Finish(Locals, Raised("RuntimeError", "snapshot", "snapshot refresh failed", 0),
                   appended)
    ELSE /\ SetLocals(SnapshotLocals(res.snapshot))
         /\ Finish(SnapshotLocals(res.snapshot), NoException, appended)

\* the use_snapshot branch of _run_analyze, to the end of the request
AnswerFromSnapshot ==
    /\ rPc = "start"
    /\ use_snapshot
    /\ \E run \in SnapshotRuns, appended \in BOOLEAN :
        \E res \in {CallGetSnapshot(run)} :
            /\ snapshots' = res.table
            /\ uuids' = IF res.outcome = "returned" \/ run[Len(run)] = "payload_error"
                        THEN uuids ELSE uuids + 1
            /\ history' = TracedHistory(
                              [history EXCEPT !.snapshotCalls = @ + Len(run),
                                              !.snapshotKey = SnapshotKey(SnapshotShape(run))],
                              TRUE, appended)
            /\ SnapshotAnswered(res, appended)
    /\ UNCHANGED <<max_repairs, rDatasetId, rPlan, cacheVars, validateVars, allowVars,
                   functionVars, now, ticks, source_max, sCalls, sLast, refreshers, commits>>

Next == BeginAnalyze \/ LoopIteration \/ AnswerFromSnapshot

Spec == Init /\ [][Next]_vars

\* C26: when the snapshot path is taken the orchestrator drafts and executes no
\* SQL, neither reads nor writes the Plan->SQL cache and reports retries_used 0;
\* when get_snapshot returns, the evaluation is ok, the sql is the marker and the
\* one row carries the snapshot_version and run_id of the stored snapshot.
C26_AnsweredFromSnapshot ==
    history.snapshotCalls >= 1 =>
        /\ rPlan.intent \in {"trend_analysis", "customer_segmentation"}
        /\ rPc = "done"
        /\ history.draftings = 0 /\ history.repairCalls = 0 /\ history.executions = 0
        /\ history.cacheReads = 0 /\ history.cacheWrites = 0
        /\ cache \in AnalyzeCaches(backend, rDatasetId)
        /\ retries_used = 0
        /\ analysis_error = "None" =>
            /\ response.status_code = 200
            /\ response.evaluator_status = "ok"
            /\ response.retries_used = 0
            /\ response.sql = SnapshotMarker
            /\ Len(response.rows) = 1
            /\ history.snapshotKey \in DOMAIN snapshots
            /\ response.rows[1].snapshot_version =
                  snapshots[history.snapshotKey].snapshot_version
            /\ response.rows[1].run_id = snapshots[history.snapshotKey].run_id

\* a segmentation request for a dataset with metadata found a row past the TTL:
\* the row was refreshed and the response carries version 4 and the new run_id
C26_Witness ==
    /\ rPc = "done"
    /\ rPlan.intent = "customer_segmentation"
    /\ history.snapshotCalls = 1
    /\ response.status_code = 200
    /\ response.rows[1].snapshot_version = 4
    /\ response.rows[1].run_id = 1
    /\ response.rows[1].refreshed
====
